---- MODULE Spec2Model ----
(***************************************************************************)
(* Model of the .vr parser of vrbrowse (js/vrparser.js): the token cursor, *)
(* the recursive-descent grammar rules and the geometry builders.          *)
(*                                                                         *)
(* The parser runs over a token sequence.  The recursion of the grammar    *)
(* rules is modelled by an explicit stack of frames; one action is one     *)
(* iteration of the `while` loop of the rule on top of the stack, with     *)
(* every call it makes (primitive sub-rules, skipBlock, the catch handler  *)
(* of the enclosing rule when it throws) included.                         *)
(*                                                                         *)
(* Numbers are exact rationals <<n, d>> in lowest terms with d > 0.  The   *)
(* inputs are small integers, halves and decimal literals that are only    *)
(* copied, so the arithmetic the code performs on them is exact in IEEE    *)
(* doubles as well.                                                        *)
(***************************************************************************)
EXTENDS Integers, Sequences, FiniteSets, TLC

VARIABLES doc,      \* the document handed to parseVrIntoScene (its description)
          tokens,   \* Parser.tokens, the result of tokenize(text)
          i,        \* Parser.i, the cursor (0-based as in the source)
          stack,    \* the grammar rules in progress, innermost last
          scene,    \* theScene
          log,      \* the warnings of the catch handlers (console.warn), in order
          pc,       \* "parse" while parseTopLevel runs, "done" after the return
          kept      \* the document and scene of an earlier call the caller kept

vars == <<doc, tokens, i, stack, scene, log, pc, kept>>

\* JavaScript null / undefined (an absent value)
Null == <<>>

---------------------------------------------------------------------------
(* Numbers *)

Abs(n) == IF n < 0 THEN -n ELSE n

RECURSIVE GCD(_, _)
GCD(a, b) == IF b = 0 THEN a ELSE GCD(b, a % b)

\* the rational n/d in lowest terms (d # 0)
Rat(n, d) ==
    LET g == GCD(Abs(n), Abs(d))
        s == IF d < 0 THEN -1 ELSE 1
    IN  <<(s * n) \div g, (s * d) \div g>>

\* the integer n as a number
R(n) == <<n, 1>>

\* NaN, and undefined converted to a number
NaN == <<0, 0>>
IsNaN(a) == a[2] = 0
ToNumber(x) == IF x = Null THEN NaN ELSE x

RAdd(a, b) == IF IsNaN(a) \/ IsNaN(b) THEN NaN
              ELSE Rat(a[1] * b[2] + b[1] * a[2], a[2] * b[2])
RSub(a, b) == IF IsNaN(a) \/ IsNaN(b) THEN NaN
              ELSE Rat(a[1] * b[2] - b[1] * a[2], a[2] * b[2])
RMul(a, b) == IF IsNaN(a) \/ IsNaN(b) THEN NaN
              ELSE Rat(a[1] * b[1], a[2] * b[2])
\* a / b for a finite b # 0
RDiv(a, b) == IF IsNaN(a) \/ IsNaN(b) THEN NaN
              ELSE Rat(a[1] * b[2], a[2] * b[1])
RAbs(a) == <<Abs(a[1]), a[2]>>

\* a < b for positive a and b, by integer parts and then the reciprocals of
\* the fractional parts, so that a comparison with a tolerance such as 1e-8
\* multiplies no large numbers
RECURSIVE PosLess(_, _)
PosLess(a, b) ==
    LET fa == a[1] \div a[2]
        fb == b[1] \div b[2]
        ra == a[1] % a[2]
        rb == b[1] % b[2]
    IN  IF fa # fb THEN fa < fb
        ELSE IF ra = 0 THEN rb > 0
        ELSE IF rb = 0 THEN FALSE
        ELSE PosLess(<<b[2], rb>>, <<a[2], ra>>)

\* a < b ; every comparison with NaN is false
RLess(a, b) ==
    IF IsNaN(a) \/ IsNaN(b) THEN FALSE
    ELSE IF a[1] <= 0 /\ b[1] > 0 THEN TRUE
    ELSE IF a[1] <= 0 /\ b[1] = 0 THEN a[1] < 0
    ELSE IF a[1] >= 0 /\ b[1] <= 0 THEN FALSE
    ELSE IF a[1] > 0 THEN PosLess(a, b)
    ELSE PosLess(RAbs(b), RAbs(a))
RLeq(a, b) == ~IsNaN(a) /\ ~IsNaN(b) /\ ~RLess(b, a)
\* Math.min / Math.max
MathMin(a, b) == IF IsNaN(a) \/ IsNaN(b) THEN NaN ELSE IF RLess(b, a) THEN b ELSE a
MathMax(a, b) == IF IsNaN(a) \/ IsNaN(b) THEN NaN ELSE IF RLess(a, b) THEN b ELSE a
IsInteger(a) == a[2] = 1

\* x | 0 : truncation toward zero (the numbers of the model lie far inside
\* the signed 32-bit range, where `| 0` wraps nothing)
ToInt32(a) == IF a[1] < 0 THEN -((-a[1]) \div a[2]) ELSE a[1] \div a[2]

---------------------------------------------------------------------------
(* Tokens, as tokenize() pushes them *)

Id(s)  == [type |-> "ident", value |-> s]
Str(s) == [type |-> "string", value |-> s]
Num(r) == [type |-> "number", value |-> r]
N(n)   == Num(R(n))
P(c)   == [type |-> c, value |-> c]
EOFTok == [type |-> "EOF"]

\* String.prototype.toLowerCase, on the identifiers the documents use
toLowerCase(s) ==
    CASE s = "RGB" -> "rgb"
      [] s = "Object" -> "object"
      [] s = "WORLD" -> "world"
      [] s = "RBOX" -> "rbox"
      [] s = "CYL" -> "cyl"
      [] s = "SPHERE" -> "sphere"
      [] s = "N_LINE" -> "n_line"
      [] s = "LINE" -> "line"
      [] s = "QUAD_GRID" -> "quad_grid"
      [] s = "N_POLY" -> "n_poly"
      [] s = "PART_TOP" -> "part_top"
      [] s = "FLAG" -> "flag"
      [] s = "POLYGON" -> "polygon"
      [] OTHER -> s

---------------------------------------------------------------------------
(* Token cursor.  The operators take the cursor position p and return the  *)
(* new position; the actions assign it to i.                               *)

\* this.tokens[p] || { type: 'EOF' }
peek(p) == IF p >= 0 /\ p + 1 <= Len(tokens) THEN tokens[p + 1] ELSE EOFTok

peekIs(p, type, value) ==
    /\ peek(p).type = type
    /\ peek(p).value = value

\* expect(type): consumes one token in any case; ok is FALSE when it throws
expect(p, type) == [i |-> p + 1, ok |-> peek(p).type = type, tok |-> peek(p)]

\* accept(type): consumes the token only when it matches
accept(p, type) == IF peek(p).type = type THEN p + 1 ELSE p

\* skipValue(): one string or number, or `v` and up to three numbers, or one token
\* skipValue() that only looks at the token
skipValue_peek(p) == p

skipValue(p) ==
    LET t == peek(p) IN
    IF t.type = "string" \/ t.type = "number" THEN p + 1
    ELSE IF t.type = "ident" /\ t.value = "v" THEN
        IF peek(p + 1).type # "number" THEN p + 1
        ELSE IF peek(p + 2).type # "number" THEN p + 2
        ELSE IF peek(p + 3).type # "number" THEN p + 3
        ELSE p + 4
    ELSE p + 1

\* the loop without the count of nested braces: it ends at the first `}`
RECURSIVE skipBlockLoop_flat(_, _)
skipBlockLoop_flat(p, depth) ==
    IF peek(p).type = "EOF" \/ peek(p).type = "}" THEN p + 1
    ELSE skipBlockLoop_flat(p + 1, depth)

\* the inner loop of skipBlock: consume until the matching brace or EOF
RECURSIVE skipBlockLoop(_, _)
skipBlockLoop(p, depth) ==
    LET u == peek(p) IN
    IF u.type = "EOF" THEN p + 1
    ELSE IF u.type = "{" THEN skipBlockLoop(p + 1, depth + 1)
    ELSE IF u.type = "}" THEN
        IF depth = 0 THEN p + 1 ELSE skipBlockLoop(p + 1, depth - 1)
    ELSE skipBlockLoop(p + 1, depth)

skipBlock_open(p) == IF peek(p).type # "{" THEN p ELSE p + 1

skipBlock(p) == IF peek(p).type # "{" THEN p ELSE skipBlockLoop(p + 1, 0)

\* parseVector(): optional `v`, then three numbers; each is consumed before
\* its type is tested, so a throw leaves the cursor after the offending token
parseVector(p) ==
    LET q == IF peek(p).type = "ident" /\ peek(p).value = "v" THEN p + 1 ELSE p IN
    IF peek(q).type # "number" THEN [i |-> q + 1, ok |-> FALSE, val |-> Null]
    ELSE IF peek(q + 1).type # "number" THEN [i |-> q + 2, ok |-> FALSE, val |-> Null]
    ELSE IF peek(q + 2).type # "number" THEN [i |-> q + 3, ok |-> FALSE, val |-> Null]
    ELSE [i |-> q + 3, ok |-> TRUE,
          val |-> <<peek(q).value, peek(q + 1).value, peek(q + 2).value>>]

\* three consecutive expect('number') calls
expect3(p) ==
    IF peek(p).type # "number" THEN [i |-> p + 1, ok |-> FALSE, val |-> Null]
    ELSE IF peek(p + 1).type # "number" THEN [i |-> p + 2, ok |-> FALSE, val |-> Null]
    ELSE IF peek(p + 2).type # "number" THEN [i |-> p + 3, ok |-> FALSE, val |-> Null]
    ELSE [i |-> p + 3, ok |-> TRUE,
          val |-> <<peek(p).value, peek(p + 1).value, peek(p + 2).value>>]

---------------------------------------------------------------------------
(* Views and the primitive sub-rules.  A sub-rule returns the new cursor,  *)
(* ok = FALSE when it throws, and the views it pushes onto                 *)
(* parentObject.views (none or one).                                       *)

Thrown(p) == [i |-> p, ok |-> FALSE, views |-> <<>>]
Pushed(p, view) == [i |-> p, ok |-> TRUE, views |-> <<view>>]
NoView(p) == [i |-> p, ok |-> TRUE, views |-> <<>>]

\* arr[idx] is an element of arr (idx a number token value or null)
HasIndex(arr, idx) ==
    /\ idx # Null
    /\ IsInteger(idx)
    /\ idx[1] >= 0
    /\ idx[1] < Len(arr)

\* if (view_index !== null) view.view_index = view_index
withViewIndex(view, view_index) ==
    IF view_index # Null THEN view @@ [view_index |-> view_index] ELSE view

\* the material attachment of parseRBox, parseCyl and parseSphereInView:
\* materials[material_index] when present, else materials[0]
attachMaterial(view, obj, material_index) ==
    IF Len(obj.materials) > 0 THEN
        IF material_index # Null /\ HasIndex(obj.materials, material_index)
        THEN view @@ [material |-> obj.materials[material_index[1] + 1]]
        ELSE view @@ [material |-> obj.materials[1]]
    ELSE view

rboxCenter(a, b) ==
    [k \in 1..3 |-> RDiv(RAdd(MathMin(a[k], b[k]), MathMax(a[k], b[k])), R(2))]

\* a variant of rboxSize that adds the extremes
rboxSize_sum(a, b) ==
    [k \in 1..3 |-> RAdd(MathMax(a[k], b[k]), MathMin(a[k], b[k]))]

rboxSize_diff(a, b) == [k \in 1..3 |-> RSub(b[k], a[k])]

rboxSize(a, b) ==
    [k \in 1..3 |-> RSub(MathMax(a[k], b[k]), MathMin(a[k], b[k]))]

parseRBox(p, obj, material_index, view_index) ==
    LET a == parseVector(p) IN
    IF ~a.ok THEN Thrown(a.i)
    ELSE LET b == parseVector(a.i) IN
         IF ~b.ok THEN Thrown(b.i)
         ELSE Pushed(b.i,
                attachMaterial(
                  withViewIndex([type |-> "rbox",
                                 center |-> rboxCenter(a.val, b.val),
                                 size |-> rboxSize(a.val, b.val),
                                 material_index |-> material_index], view_index),
                  obj, material_index))

\* the loop of parseCyl over the optional ratio and flags
RECURSIVE cylFlags(_)
cylFlags(p) ==
    LET t == peek(p) IN
    IF t.type = "}" \/ t.type = "EOF" \/ t.type = ";" THEN p
    ELSE IF t.type = "number" \/ t.type = "ident" \/ t.type = "string"
         THEN cylFlags(p + 1)
         ELSE p

parseCyl(p, obj, material_index, view_index) ==
    LET hasV == peek(p).type = "ident" /\ peek(p).value = "v"
        c == parseVector(p)
        center == IF hasV /\ c.ok THEN c.val ELSE <<R(0), R(0), R(0)>>
        q == IF hasV THEN c.i ELSE p
    IN
    IF peek(q).type # "number" THEN Thrown(q)
    ELSE IF peek(q + 1).type # "number" THEN Thrown(q + 1)
    ELSE IF peek(q + 2).type # "number" THEN Thrown(q + 2)
    ELSE Pushed(accept(cylFlags(q + 3), ";"),
           attachMaterial(
             withViewIndex([type |-> "cylinder", center |-> center,
                            rx |-> peek(q).value, ry |-> peek(q + 1).value,
                            height |-> peek(q + 2).value,
                            material_index |-> material_index], view_index),
             obj, material_index))

parseSphereInView(p, obj, material_index, texture_index, view_index) ==
    LET n == IF peek(p).type # "number" THEN 0
             ELSE IF peek(p + 1).type # "number" THEN 1
             ELSE IF peek(p + 2).type # "number" THEN 2
             ELSE 3
        half == Rat(1, 2)
        rx == IF n = 1 \/ n = 3 THEN peek(p).value ELSE half
        ry == IF n = 1 THEN peek(p).value ELSE IF n = 3 THEN peek(p + 1).value ELSE half
        rz == IF n = 1 THEN peek(p).value ELSE IF n = 3 THEN peek(p + 2).value ELSE half
    IN  Pushed(p + n,
          attachMaterial(
            withViewIndex([type |-> "sphere", rx |-> rx, ry |-> ry, rz |-> rz,
                           material_index |-> material_index,
                           texture_index |-> texture_index], view_index),
            obj, material_index))

\* a variant of fanIndices that walks a strip (i - 1, i, i + 1)
fanIndices_strip(count) ==
    [k \in 1..(3 * (count - 2)) |-> ((k - 1) \div 3) + ((k - 1) % 3)]

\* the fan of parseNPoly: (0, i, i + 1) for i = 1 .. count - 2, flattened
fanIndices(count) ==
    [k \in 1..(3 * (count - 2)) |->
        LET t == (k - 1) \div 3
            c == (k - 1) % 3
        IN  IF c = 0 THEN 0 ELSE IF c = 1 THEN t + 1 ELSE t + 2]

\* the vertex loop of parseNPoly: k vertices still to read
RECURSIVE nPolyVertices(_, _, _, _, _)
nPolyVertices(p, k, positions, texcoords, hasTexcoords) ==
    IF k = 0 THEN [i |-> p, ok |-> TRUE, positions |-> positions,
                   texcoords |-> texcoords, hasTexcoords |-> hasTexcoords]
    ELSE LET pos == parseVector(p) IN
         IF ~pos.ok THEN [i |-> pos.i, ok |-> FALSE]
         ELSE IF peek(pos.i).type = "ident" /\ peek(pos.i).value = "t" THEN
                  IF peek(pos.i + 1).type # "number" THEN [i |-> pos.i + 2, ok |-> FALSE]
                  ELSE IF peek(pos.i + 2).type # "number" THEN [i |-> pos.i + 3, ok |-> FALSE]
                  ELSE nPolyVertices(pos.i + 3, k - 1, positions \o pos.val,
                         texcoords \o <<peek(pos.i + 1).value, peek(pos.i + 2).value>>, TRUE)
              ELSE nPolyVertices(pos.i, k - 1, positions \o pos.val,
                     IF hasTexcoords THEN texcoords \o <<R(0), R(0)>> ELSE texcoords,
                     hasTexcoords)

parseNPoly(p, obj, material_index, texture_index, view_index) ==
    IF peek(p).type # "number" THEN Thrown(p + 1)
    ELSE LET count == ToInt32(peek(p).value) IN
         IF count < 3 THEN NoView(p + 1)
         ELSE LET vs == nPolyVertices(p + 1, count, <<>>, <<>>, FALSE) IN
              IF ~vs.ok THEN Thrown(vs.i)
              ELSE LET view == withViewIndex(
                                 [type |-> "mesh", positions |-> vs.positions,
                                  indices |-> fanIndices(count),
                                  material_index |-> material_index,
                                  texture_index |-> texture_index], view_index)
                   IN  Pushed(vs.i,
                         IF vs.hasTexcoords /\ Len(vs.texcoords) = count * 2
                         THEN view @@ [texcoords |-> vs.texcoords]
                         ELSE view)

\* one coordinate (1..3) of the grid vertex (ix, iy) of parseQuadGrid
quadGridCoord(pts, nx, ny, ix, iy, c) ==
    LET ty == IF ny = 1 THEN Rat(1, 2) ELSE Rat(iy, ny - 1)
        tx == IF nx = 1 THEN Rat(1, 2) ELSE Rat(ix, nx - 1)
        one == R(1)
    IN  RAdd(RAdd(RAdd(RMul(RMul(RSub(one, tx), RSub(one, ty)), pts[1][c]),
                       RMul(RMul(RSub(one, tx), ty), pts[2][c])),
                  RMul(RMul(tx, RSub(one, ty)), pts[3][c])),
             RMul(RMul(tx, ty), pts[4][c]))

quadGridPositions(pts, nx, ny) ==
    IF nx <= 0 \/ ny <= 0 THEN <<>>
    ELSE [k \in 1..(3 * nx * ny) |->
            LET v == (k - 1) \div 3
            IN  quadGridCoord(pts, nx, ny, v % nx, v \div nx, ((k - 1) % 3) + 1)]

\* the cells split along the other diagonal: (i0, i3, i1) and (i0, i2, i3)
quadGridIndices_flip(nx, ny) ==
    IF nx <= 1 \/ ny <= 1 THEN <<>>
    ELSE [k \in 1..(6 * (nx - 1) * (ny - 1)) |->
            LET cell == (k - 1) \div 6
                i0 == (cell \div (nx - 1)) * nx + (cell % (nx - 1))
            IN  <<i0, i0 + nx + 1, i0 + 1, i0, i0 + nx, i0 + nx + 1>>[((k - 1) % 6) + 1]]

\* two triangles per cell: (i0, i2, i1) and (i1, i2, i3)
quadGridIndices(nx, ny) ==
    IF nx <= 1 \/ ny <= 1 THEN <<>>
    ELSE [k \in 1..(6 * (nx - 1) * (ny - 1)) |->
            LET cell == (k - 1) \div 6
                iy == cell \div (nx - 1)
                ix == cell % (nx - 1)
                i0 == iy * nx + ix
                i1 == i0 + 1
                i2 == i0 + nx
                i3 == i2 + 1
            IN  <<i0, i2, i1, i1, i2, i3>>[((k - 1) % 6) + 1]]

parseQuadGrid(p, obj, material_index, texture_index, view_index) ==
    IF peek(p).type # "number" THEN Thrown(p + 1)
    ELSE IF peek(p + 1).type # "number" THEN Thrown(p + 2)
    ELSE LET nx == ToInt32(peek(p).value)
             ny == ToInt32(peek(p + 1).value)
             p0 == parseVector(p + 2)
         IN
         IF ~p0.ok THEN Thrown(p0.i)
         ELSE LET p1 == parseVector(p0.i) IN
         IF ~p1.ok THEN Thrown(p1.i)
         ELSE LET p2 == parseVector(p1.i) IN
         IF ~p2.ok THEN Thrown(p2.i)
         ELSE LET p3 == parseVector(p2.i) IN
         IF ~p3.ok THEN Thrown(p3.i)
         ELSE Pushed(p3.i,
                withViewIndex(
                  [type |-> "mesh",
                   positions |-> quadGridPositions(<<p0.val, p1.val, p2.val, p3.val>>, nx, ny),
                   indices |-> quadGridIndices(nx, ny),
                   material_index |-> material_index,
                   texture_index |-> texture_index], view_index))

\* the vertex loop of parseLinePrimitive; hasCount is `count !== null`
RECURSIVE lineVertices(_, _, _, _)
lineVertices(p, hasCount, count, verts) ==
    IF peek(p).type = "}" \/ peek(p).type = "EOF" THEN [i |-> p, verts |-> verts]
    ELSE IF peek(p).type = "ident" /\ peek(p).value = "v" THEN
        LET v == parseVector(p) IN
        IF ~v.ok THEN [i |-> v.i, verts |-> verts]
        ELSE IF hasCount /\ (Len(verts) + 3) \div 3 >= count
             THEN [i |-> v.i, verts |-> verts \o v.val]
             ELSE lineVertices(v.i, hasCount, count, verts \o v.val)
    ELSE [i |-> p, verts |-> verts]

\* segments (i, i + 1) with one more after the last vertex
lineIndices_loop(vcount) == [k \in 1..(2 * vcount) |-> ((k - 1) \div 2) + ((k - 1) % 2)]

\* consecutive segments (i, i + 1), flattened
lineIndices(vcount) ==
    IF vcount <= 1 THEN <<>>
    ELSE [k \in 1..(2 * (vcount - 1)) |-> ((k - 1) \div 2) + ((k - 1) % 2)]

parseLinePrimitive(p, kind, obj, material_index, texture_index, view_index) ==
    LET hasCount == kind = "N_LINE" /\ peek(p).type = "number"
        count == IF hasCount THEN ToInt32(peek(p).value) ELSE 0
        vs == lineVertices(IF hasCount THEN p + 1 ELSE p, hasCount, count, <<>>)
    IN  Pushed(vs.i,
          withViewIndex([type |-> "lines", positions |-> vs.verts,
                         indices |-> lineIndices(Len(vs.verts) \div 3),
                         material_index |-> material_index,
                         texture_index |-> texture_index], view_index))

---------------------------------------------------------------------------
(* indexed_poly: the lists *)

ListKeywords == {"vertexlist", "normallist", "texturelist", "polylist",
                 "normalindexlist", "textureindexlist", "materiallist", "colourlist"}

\* arr[k] for an integer k: the element, or undefined
At(arr, k) == IF k >= 0 /\ k < Len(arr) THEN arr[k + 1] ELSE Null
InRange(arr, k) == k >= 0 /\ k < Len(arr)

\* this.expect('}') at the end of a list
closeList(p, list) == [i |-> p + 1, ok |-> peek(p).type = "}", list |-> list]

\* the loop of vertexlist (arity 3, flat), normallist (arity 3, triples) and
\* texturelist (arity 2, pairs): numbers in groups, commas optional
RECURSIVE tupleList(_, _, _, _)
tupleList(p, arity, flat, list) ==
    IF peek(p).type = "}" \/ peek(p).type = "EOF" THEN closeList(p, list)
    ELSE IF peek(p).type = "number" THEN
        IF peek(p + 1).type # "number" THEN [i |-> p + 2, ok |-> FALSE, list |-> list]
        ELSE IF arity = 3 /\ peek(p + 2).type # "number"
             THEN [i |-> p + 3, ok |-> FALSE, list |-> list]
        ELSE LET tup == [k \in 1..arity |-> peek(p + k - 1).value]
                 q == accept(p + arity, ",")
             IN  tupleList(q, arity, flat,
                           IF flat THEN list \o tup ELSE Append(list, tup))
    ELSE tupleList(p + 1, arity, flat, list)

\* the loop of polylist, normalindexlist and textureindexlist: runs of
\* integers, each run ended by -1
RECURSIVE indexList(_, _, _)
indexList(p, current, list) ==
    IF peek(p).type = "}" \/ peek(p).type = "EOF"
    THEN closeList(p, IF Len(current) > 0 THEN Append(list, current) ELSE list)
    ELSE IF peek(p).type = "number" THEN
        LET v == ToInt32(peek(p).value)
            q == accept(p + 1, ",")
        IN  IF v = -1
            THEN indexList(q, IF Len(current) > 0 THEN <<>> ELSE current,
                           IF Len(current) > 0 THEN Append(list, current) ELSE list)
            ELSE indexList(q, Append(current, v), list)
    ELSE indexList(p + 1, current, list)

\* the skip of flags and numbers before the first list keyword
RECURSIVE polyFlags(_)
polyFlags(p) ==
    IF \/ peek(p).type = "number"
       \/ (peek(p).type = "ident" /\ toLowerCase(peek(p).value) \notin ListKeywords)
    THEN polyFlags(p + 1)
    ELSE p

EmptyLists == [vertices |-> <<>>, normallist |-> <<>>, texturelist |-> <<>>,
               normalindexlist |-> <<>>, textureindexlist |-> <<>>, polylist |-> <<>>]

\* one list: expect('{'), the loop, expect('}')
oneList(p, id, ls) ==
    IF peek(p).type # "{" THEN [i |-> p + 1, ok |-> FALSE, ls |-> ls]
    ELSE LET r == CASE id = "vertexlist" -> tupleList(p + 1, 3, TRUE, ls.vertices)
                    [] id = "normallist" -> tupleList(p + 1, 3, FALSE, ls.normallist)
                    [] id = "texturelist" -> tupleList(p + 1, 2, FALSE, ls.texturelist)
                    [] id = "polylist" -> indexList(p + 1, <<>>, ls.polylist)
                    [] id = "normalindexlist" -> indexList(p + 1, <<>>, ls.normalindexlist)
                    [] id = "textureindexlist" -> indexList(p + 1, <<>>, ls.textureindexlist)
             field == IF id = "vertexlist" THEN "vertices" ELSE id
         IN  [i |-> r.i, ok |-> r.ok, ls |-> [ls EXCEPT ![field] = r.list]]

\* the main loop of parseIndexedPoly; the closing brace is not consumed
RECURSIVE polyLists(_, _)
polyLists(p, ls) ==
    IF peek(p).type = "}" \/ peek(p).type = "EOF" THEN [i |-> p, ok |-> TRUE, ls |-> ls]
    ELSE IF peek(p).type = "ident" THEN
        LET id == toLowerCase(peek(p).value) IN
        IF id \in {"vertexlist", "polylist", "normallist", "texturelist",
                   "normalindexlist", "textureindexlist"}
        THEN LET r == oneList(p + 1, id, ls) IN
             IF ~r.ok THEN r ELSE polyLists(r.i, r.ls)
        ELSE IF peek(p + 1).type = "{" THEN polyLists(skipBlock(p + 1), ls)
        ELSE polyLists(skipValue(p + 1), ls)
    ELSE polyLists(p + 1, ls)

---------------------------------------------------------------------------
(* indexed_poly: triangulation *)

\* Newell's sums over the polygon.  The code divides the three sums by
\* their common length (or by 1 when the length is 0 or NaN); the division
\* by a positive number does not change the comparisons of magnitudes that
\* follow, so the sums are kept unnormalised.
RECURSIVE newellSum(_, _, _)
newellSum(pts, k, acc) ==
    IF k > Len(pts) THEN acc
    ELSE LET a == pts[k]
             b == pts[(k % Len(pts)) + 1]
             x1 == ToNumber(a[1])  y1 == ToNumber(a[2])  z1 == ToNumber(a[3])
             x2 == ToNumber(b[1])  y2 == ToNumber(b[2])  z2 == ToNumber(b[3])
         IN  newellSum(pts, k + 1,
               <<RAdd(acc[1], RMul(RSub(y1, y2), RAdd(z1, z2))),
                 RAdd(acc[2], RMul(RSub(z1, z2), RAdd(x1, x2))),
                 RAdd(acc[3], RMul(RSub(x1, x2), RAdd(y1, y2)))>>)

computeNormalNewell(pts) == newellSum(pts, 1, <<R(0), R(0), R(0)>>)

\* the projection plane: the axis of the strictly largest |normal| is dropped
projectionOf(normal) ==
    LET ax == RAbs(normal[1])
        ay == RAbs(normal[2])
        az == RAbs(normal[3])
    IN  IF RLess(ay, ax) /\ RLess(az, ax) THEN "yz"
        ELSE IF RLess(az, ay) /\ RLess(ax, ay) THEN "xz"
        ELSE "xy"

proj(projection, pt) ==
    IF projection = "xy" THEN <<ToNumber(pt[1]), ToNumber(pt[2])>>
    ELSE IF projection = "yz" THEN <<ToNumber(pt[2]), ToNumber(pt[3])>>
    ELSE <<ToNumber(pt[1]), ToNumber(pt[3])>>

area2(a, b, c) ==
    RSub(RMul(RSub(b[1], a[1]), RSub(c[2], a[2])),
         RMul(RSub(b[2], a[2]), RSub(c[1], a[1])))

\* the tolerances 1e-8, -1e-9 and 1e-6
Tol8 == <<1, 100000000>>
NegTol9 == <<-1, 1000000000>>
Tol6 == <<1, 1000000>>

\* the point v2[j] lies inside the triangle (a, b, c), borders included
blocksEar(v2, a, b, c, j) ==
    LET pt == v2[j + 1]
        A == area2(a, b, c)
        A1 == area2(pt, b, c)
        A2 == area2(a, pt, c)
        A3 == area2(a, b, pt)
    IN  /\ RLeq(NegTol9, A1)
        /\ RLeq(NegTol9, A2)
        /\ RLeq(NegTol9, A3)
        /\ RLess(RAbs(RSub(RAdd(RAdd(A1, A2), A3), A)), Tol6)

\* V holds the remaining local indices (0-based values)
isEar(v2, V, i0, i1, i2) ==
    LET a == v2[i0 + 1]
        b == v2[i1 + 1]
        c == v2[i2 + 1]
    IN  /\ ~RLeq(area2(a, b, c), Tol8)
        /\ \A k \in 1..Len(V) :
              V[k] \in {i0, i1, i2} \/ ~blocksEar(v2, a, b, c, V[k])

\* the corner at position k (1-based) of V
earAt(v2, V, k) ==
    LET n == Len(V)
        i0 == V[((k - 2 + n) % n) + 1]
        i1 == V[k]
        i2 == V[(k % n) + 1]
    IN  isEar(v2, V, i0, i1, i2)

RemoveAt(seq, k) == SubSeq(seq, 1, k - 1) \o SubSeq(seq, k + 1, Len(seq))

MaxSafety == 10000

\* the clipping loop: one ear per round, the first one in the order of V
RECURSIVE clipLoop(_, _, _, _)
clipLoop(v2, V, triangles, safety) ==
    IF ~(Len(V) > 3 /\ safety < MaxSafety) THEN
        IF Len(V) = 3 THEN Append(triangles, <<V[1], V[2], V[3]>>) ELSE triangles
    ELSE LET ears == {k \in 1..Len(V) : earAt(v2, V, k)} IN
         IF ears = {} THEN
             IF Len(V) = 3 THEN Append(triangles, <<V[1], V[2], V[3]>>) ELSE triangles
         ELSE LET k == CHOOSE e \in ears : \A f \in ears : e <= f
                  n == Len(V)
              IN  clipLoop(v2, RemoveAt(V, k),
                           Append(triangles,
                                  <<V[((k - 2 + n) % n) + 1], V[k], V[(k % n) + 1]>>),
                           safety + 1)

\* triangles as triples of local indices into the polygon
triangulateEarClip(polyPts) ==
    IF Len(polyPts) < 3 THEN <<>>
    ELSE LET projection == projectionOf(computeNormalNewell(polyPts))
             v2 == [k \in 1..Len(polyPts) |-> proj(projection, polyPts[k])]
             V == [k \in 1..Len(polyPts) |-> k - 1]
         IN  clipLoop(v2, V, <<>>, 0)

\* the concatenation of a sequence of sequences (push(...) in a loop)
RECURSIVE flatten(_)
flatten(seqs) == IF seqs = <<>> THEN <<>> ELSE Head(seqs) \o flatten(Tail(seqs))

cornerPosition(vertices, vertIdx) ==
    <<At(vertices, vertIdx * 3), At(vertices, vertIdx * 3 + 1), At(vertices, vertIdx * 3 + 2)>>

\* normalindexlist -> normallist, else the normal of the vertex, else zero
cornerNormal(ls, faceIdx, localIdx, vertIdx) ==
    LET zero == <<R(0), R(0), R(0)>> IN
    IF InRange(ls.normalindexlist, faceIdx)
       /\ InRange(ls.normalindexlist[faceIdx + 1], localIdx)
    THEN LET ni == ls.normalindexlist[faceIdx + 1][localIdx + 1] IN
         IF InRange(ls.normallist, ni) THEN ls.normallist[ni + 1] ELSE zero
    ELSE IF InRange(ls.normallist, vertIdx) THEN ls.normallist[vertIdx + 1] ELSE zero

cornerTexcoord(ls, faceIdx, localIdx, vertIdx) ==
    LET zero == <<R(0), R(0)>> IN
    IF InRange(ls.textureindexlist, faceIdx)
       /\ InRange(ls.textureindexlist[faceIdx + 1], localIdx)
    THEN LET ti == ls.textureindexlist[faceIdx + 1][localIdx + 1] IN
         IF InRange(ls.texturelist, ti) THEN ls.texturelist[ti + 1] ELSE zero
    ELSE IF InRange(ls.texturelist, vertIdx) THEN ls.texturelist[vertIdx + 1] ELSE zero

\* the triangles of face faceIdx (0-based), as triples of local indices
faceTriangles(ls, faceIdx) ==
    LET poly == ls.polylist[faceIdx + 1] IN
    IF Len(poly) < 3 THEN <<>>
    ELSE triangulateEarClip([k \in 1..Len(poly) |-> cornerPosition(ls.vertices, poly[k])])

\* the corners of all triangles, in output order: <<faceIdx, localIdx>>
faceCorners(ls, faceIdx) ==
    LET tris == faceTriangles(ls, faceIdx) IN
    [k \in 1..(3 * Len(tris)) |-> <<faceIdx, tris[((k - 1) \div 3) + 1][((k - 1) % 3) + 1]>>]

meshCorners(ls) == flatten([f \in 1..Len(ls.polylist) |-> faceCorners(ls, f - 1)])

\* the vertexlist index of the corner <<faceIdx, localIdx>>
vertIdxOf(ls, c) == ls.polylist[c[1] + 1][c[2] + 1]

outPositions(ls, corners) ==
    flatten([k \in 1..Len(corners) |->
               cornerPosition(ls.vertices, vertIdxOf(ls, corners[k]))])

outNormals(ls, corners) ==
    flatten([k \in 1..Len(corners) |->
               cornerNormal(ls, corners[k][1], corners[k][2], vertIdxOf(ls, corners[k]))])

outTexcoords(ls, corners) ==
    flatten([k \in 1..Len(corners) |->
               cornerTexcoord(ls, corners[k][1], corners[k][2], vertIdxOf(ls, corners[k]))])

\* arr.some(v => v !== 0)
someNonZero(arr) == \E k \in 1..Len(arr) : arr[k] # R(0)

\* the view with the properties of extra when cond holds
withIf(view, cond, extra) == IF cond THEN view @@ extra ELSE view

\* the mesh view of parseIndexedPoly: positions and indices, then normals
\* and texcoords when some value is not zero, then the material and the
\* texture when the index was given and names one
meshView(ls, corners, obj, material_index, texture_index, view_index, normals, texcoords) ==
    withIf(
      withIf(
        withIf(
          withIf(
            withViewIndex([type |-> "mesh", positions |-> outPositions(ls, corners),
                           indices |-> [k \in 1..Len(corners) |-> k - 1],
                           material_index |-> material_index,
                           texture_index |-> texture_index], view_index),
            someNonZero(normals), [normals |-> normals]),
          someNonZero(texcoords), [texcoords |-> texcoords]),
        HasIndex(obj.materials, material_index),
        [material |-> obj.materials[material_index[1] + 1]]),
      HasIndex(obj.textures, texture_index),
      [texture |-> obj.textures[texture_index[1] + 1]])

buildIndexedPoly(ls, corners, obj, material_index, texture_index, view_index) ==
    meshView(ls, corners, obj, material_index, texture_index, view_index,
             outNormals(ls, corners), outTexcoords(ls, corners))

parseIndexedPoly(p, material_index, texture_index, obj, view_index) ==
    LET p1 == IF peek(p).type = "ident" THEN p + 1 ELSE p
        r == polyLists(polyFlags(p1), EmptyLists)
    IN  IF ~r.ok THEN Thrown(r.i)
        ELSE Pushed(r.i, buildIndexedPoly(r.ls, meshCorners(r.ls), obj, material_index,
                                          texture_index, view_index))

---------------------------------------------------------------------------
(* Scene, objects and materials *)

\* emtpyScene()
emtpyScene ==
    [world |-> [background |-> <<Rat(1, 5), Rat(1, 5), Rat(1, 4)>>,
                start |-> <<R(0), R(0), R(3)>>],
     objects |-> <<>>]

\* the object literal parseObject starts from (views is added by the first push)
newObject == [name |-> Null, materials |-> <<>>, textures |-> <<>>,
              children |-> <<>>, transforms |-> <<>>]

\* a scene object the caller built without the objects field
bareScene == [world |-> emtpyScene.world]

\* scene.objects || []
objectsOf(s) == IF "objects" \in DOMAIN s THEN s.objects ELSE <<>>

pushObject_only(s, obj) == [world |-> s.world, objects |-> <<obj>>]

\* scene.objects = scene.objects || []; scene.objects.push(obj)
pushObject(s, obj) == [world |-> s.world, objects |-> Append(objectsOf(s), obj)]

viewsOf(obj) == IF "views" \in DOMAIN obj THEN obj.views ELSE <<>>

\* parentObject.views = parentObject.views || []; parentObject.views.push(view)
pushViews(obj, views) ==
    IF views = <<>> THEN obj
    ELSE IF "views" \in DOMAIN obj THEN [obj EXCEPT !.views = @ \o views]
    ELSE obj @@ [views |-> views]

Zero3 == <<R(0), R(0), R(0)>>
DefaultDiffuse == <<Rat(4, 5), Rat(4, 5), Rat(4, 5)>>

\* material "NAME"
namedMaterial(nm) ==
    [name |-> nm, ambient |-> Zero3, diffuse |-> DefaultDiffuse, emission |-> Zero3,
     specular |-> Zero3, spec_power |-> R(0), transparency |-> R(0)]

\* material rgb r g b : ambient and diffuse
rgbMaterial(rgb) ==
    [ambient |-> rgb, diffuse |-> rgb, emission |-> Zero3,
     specular |-> Zero3, spec_power |-> R(0), transparency |-> R(0)]

\* the material a property block starts from
blockMaterial ==
    [ambient |-> Zero3, diffuse |-> DefaultDiffuse, emission |-> Zero3,
     specular |-> Zero3, spec_power |-> R(0), transparency |-> R(0)]

\* the loop over a material property block, through its closing brace
RECURSIVE materialBlock(_, _)
materialBlock(p, mat) ==
    IF peek(p).type = "}" \/ peek(p).type = "EOF"
    THEN [i |-> accept(p, "}"), ok |-> TRUE, mat |-> mat]
    ELSE IF peek(p).type = "ident" THEN
        LET prop == toLowerCase(peek(p).value) IN
        IF prop \in {"ambient", "diffuse", "emission", "specular"} THEN
            LET c == expect3(p + 1) IN
            IF ~c.ok THEN [i |-> c.i, ok |-> FALSE, mat |-> mat]
            ELSE materialBlock(c.i, [mat EXCEPT ![prop] = c.val])
        ELSE IF prop \in {"spec_power", "transparency"} THEN
            IF peek(p + 1).type # "number" THEN [i |-> p + 2, ok |-> FALSE, mat |-> mat]
            ELSE materialBlock(p + 2, [mat EXCEPT ![prop] = peek(p + 1).value])
        ELSE materialBlock(skipValue(p + 1), mat)
    ELSE materialBlock(skipValue(p), mat)

\* the three forms of `material`, the keyword consumed: the materials pushed
parseMaterial(p) ==
    IF peek(p).type = "string"
    THEN [i |-> p + 1, ok |-> TRUE, mats |-> <<namedMaterial(peek(p).value)>>]
    ELSE IF peek(p).type = "ident" /\ toLowerCase(peek(p).value) = "rgb" THEN
        LET c == expect3(p + 1) IN
        IF ~c.ok THEN [i |-> c.i, ok |-> FALSE, mats |-> <<>>]
        ELSE [i |-> c.i, ok |-> TRUE, mats |-> <<rgbMaterial(c.val)>>]
    ELSE IF peek(p).type = "{" THEN
        LET b == materialBlock(p + 1, blockMaterial) IN
        IF ~b.ok THEN [i |-> b.i, ok |-> FALSE, mats |-> <<>>]
        ELSE [i |-> b.i, ok |-> TRUE, mats |-> <<b.mat>>]
    ELSE [i |-> skipValue(p), ok |-> TRUE, mats |-> <<>>]

\* translation / eulerxyz / fixedxyz (one vector) and rotation (three)
parseTransform(p, id) ==
    LET v1 == parseVector(p) IN
    IF ~v1.ok THEN [i |-> v1.i, ok |-> FALSE, transforms |-> <<>>]
    ELSE IF id # "rotation"
    THEN [i |-> v1.i, ok |-> TRUE, transforms |-> <<[type |-> id, value |-> v1.val]>>]
    ELSE LET v2 == parseVector(v1.i) IN
         IF ~v2.ok THEN [i |-> v2.i, ok |-> FALSE, transforms |-> <<>>]
         ELSE LET v3 == parseVector(v2.i) IN
              IF ~v3.ok THEN [i |-> v3.i, ok |-> FALSE, transforms |-> <<>>]
              ELSE [i |-> v3.i, ok |-> TRUE,
                    transforms |-> <<[type |-> "rotation",
                                      value |-> <<v1.val, v2.val, v3.val>>]>>]

\* the default material pass at the end of parseVrIntoScene
x11Gray == <<Rat(128, 255), Rat(128, 255), Rat(128, 255)>>

\* a variant of ensureMaterial that pushes GRAY whatever the object holds
ensureMaterial_always(obj) ==
    [obj EXCEPT !.materials = Append(@, [name |-> "GRAY", diffuse |-> x11Gray])]

ensureMaterial(obj) ==
    IF Len(obj.materials) = 0
    THEN [obj EXCEPT !.materials = <<[name |-> "GRAY", diffuse |-> x11Gray]>>]
    ELSE obj

postProcess(objects) == [k \in 1..Len(objects) |-> ensureMaterial(objects[k])]

---------------------------------------------------------------------------
(* The rules in progress *)

Frame(rule, obj, phase, material_index, texture_index, view_index) ==
    [rule |-> rule, obj |-> obj, phase |-> phase, material_index |-> material_index,
     texture_index |-> texture_index, view_index |-> view_index]

ObjectFrame(obj) == Frame("object", obj, "", Null, Null, Null)
WorldFrame == Frame("world", Null, "", Null, Null, Null)

Top == stack[Len(stack)]
Pop(stk) == SubSeq(stk, 1, Len(stk) - 1)
InRule(rule) == pc = "parse" /\ Len(stack) > 0 /\ Top.rule = rule

\* An exception thrown at cursor q inside the rule on top of the stack: the
\* rule is abandoned and the catch handler of its caller (parseTopLevel for
\* world and top-level objects, parseObject for views and nested objects)
\* runs skipBlock and goes on with the caller's loop.
Raise(q) ==
    /\ stack' = Pop(stack)
    /\ i' = skipBlock(q)
    /\ log' = Append(log, IF Top.rule = "world" THEN "world parse error"
                          ELSE IF Top.rule = "view" THEN "View parse error in object"
                          ELSE IF Len(stack) > 1 THEN "Nested object parse error"
                          ELSE "object parse error")
    /\ UNCHANGED <<doc, tokens, scene, pc, kept>>

---------------------------------------------------------------------------
(* parseTopLevel: one iteration of its loop per action *)

AtTopLevel == pc = "parse" /\ stack = <<>>

\* the head of parseWorld and parseObject: optional string, then expect('{')
blockHead(p) ==
    LET q == IF peek(p).type = "string" THEN p + 1 ELSE p
    IN  [i |-> q + 1, ok |-> peek(q).type = "{"]

\* `world`: the head of parseWorld; a missing brace is caught here
parseTopLevel_world ==
    /\ AtTopLevel
    /\ peek(i).type = "ident"
    /\ toLowerCase(peek(i).value) = "world"
    /\ LET h == blockHead(i + 1) IN
       IF h.ok
       THEN /\ stack' = <<WorldFrame>>
            /\ i' = h.i
            /\ log' = log
       ELSE /\ stack' = stack
            /\ i' = skipBlock(h.i)
            /\ log' = Append(log, "world parse error")
    /\ UNCHANGED <<doc, tokens, scene, pc, kept>>

\* `object`: the head of a top-level parseObject
parseTopLevel_object ==
    /\ AtTopLevel
    /\ peek(i).type = "ident"
    /\ toLowerCase(peek(i).value) = "object"
    /\ LET h == blockHead(i + 1) IN
       IF h.ok
       THEN /\ stack' = <<ObjectFrame(newObject)>>
            /\ i' = h.i
            /\ log' = log
       ELSE /\ stack' = stack
            /\ i' = skipBlock(h.i)
            /\ log' = Append(log, "object parse error")
    /\ UNCHANGED <<doc, tokens, scene, pc, kept>>

\* the loop that skips an unknown top-level statement up to `;`
RECURSIVE skipStatement(_)
skipStatement(p) ==
    IF peek(p).type = ";" \/ peek(p).type = "EOF" \/ peek(p).type = "}" THEN p
    ELSE skipStatement(p + 1)

\* any other identifier: its block, or the tokens up to `;`
parseTopLevel_unknown ==
    /\ AtTopLevel
    /\ peek(i).type = "ident"
    /\ toLowerCase(peek(i).value) \notin {"world", "object"}
    /\ i' = IF peek(i + 1).type = "{" THEN skipBlock(i + 1)
            ELSE accept(skipStatement(i + 1), ";")
    /\ UNCHANGED <<doc, tokens, stack, scene, log, pc, kept>>

\* a stray block is skipped, any other token is consumed
parseTopLevel_stray ==
    /\ AtTopLevel
    /\ peek(i).type \notin {"ident", "EOF"}
    /\ i' = IF peek(i).type = "{" THEN skipBlock(i) ELSE i + 1
    /\ UNCHANGED <<doc, tokens, stack, scene, log, pc, kept>>

\* the end of the stream: parseTopLevel returns, and parseVrIntoScene gives
\* every top-level object without material the default one and returns
parseVrIntoScene_return ==
    /\ AtTopLevel
    /\ peek(i).type = "EOF"
    /\ scene' = [world |-> scene.world, objects |-> postProcess(objectsOf(scene))]
    /\ pc' = "done"
    /\ UNCHANGED <<doc, tokens, i, stack, log, kept>>

---------------------------------------------------------------------------
(* parseWorld *)

parseWorld_loop ==
    /\ InRule("world")
    /\ peek(i).type \notin {"}", "EOF"}
    /\ LET t == peek(i) IN
       IF t.type = "ident" THEN
           IF t.value = "background" THEN
               LET c == expect3(i + 1) IN
               IF c.ok
               THEN /\ scene' = [scene EXCEPT !.world.background = c.val]
                    /\ i' = c.i
                    /\ UNCHANGED <<doc, tokens, stack, log, pc, kept>>
               ELSE Raise(c.i)
           ELSE IF t.value = "start" THEN
               LET v == parseVector(i + 1) IN
               IF v.ok
               THEN /\ scene' = [scene EXCEPT !.world.start = v.val]
                    /\ i' = v.i
                    /\ UNCHANGED <<doc, tokens, stack, log, pc, kept>>
               ELSE Raise(v.i)
           ELSE /\ i' = IF peek(i + 1).type = "{" THEN skipBlock(i + 1)
                        ELSE skipValue(i + 1)
                /\ UNCHANGED <<doc, tokens, stack, scene, log, pc, kept>>
       ELSE \* t was consumed by next(); this.next() skips one more token
            /\ i' = i + 2
            /\ UNCHANGED <<doc, tokens, stack, scene, log, pc, kept>>

parseWorld_end ==
    /\ InRule("world")
    /\ peek(i).type \in {"}", "EOF"}
    /\ i' = accept(i, "}")
    /\ stack' = Pop(stack)
    /\ UNCHANGED <<doc, tokens, scene, log, pc, kept>>

---------------------------------------------------------------------------
(* parseObject: one member of the body per action *)

\* the identifier under the cursor, lower-cased as parseObject reads it
memberId == IF peek(i).type = "ident" THEN toLowerCase(peek(i).value) ELSE ""

InObjectLoop == InRule("object") /\ peek(i).type \notin {"}", "EOF"}

setObj(obj) == stack' = [stack EXCEPT ![Len(stack)].obj = obj]

\* id NUMBER, name "STRING", texture "STRING"
parseObject_property ==
    /\ InObjectLoop
    /\ \/ memberId \in {"id", "texture"}
       \/ memberId = "name" /\ peek(i + 1).type = "string"
    /\ IF memberId = "id" THEN
           IF peek(i + 1).type = "number"
           THEN /\ setObj(IF "id" \in DOMAIN Top.obj
                       THEN [Top.obj EXCEPT !.id = peek(i + 1).value]
                       ELSE Top.obj @@ [id |-> peek(i + 1).value])
                /\ i' = i + 2
                /\ UNCHANGED <<doc, tokens, scene, log, pc, kept>>
           ELSE Raise(i + 2)
       ELSE IF memberId = "name" THEN
           /\ setObj([Top.obj EXCEPT !.name = peek(i + 1).value])
           /\ i' = i + 2
           /\ UNCHANGED <<doc, tokens, scene, log, pc, kept>>
       ELSE IF peek(i + 1).type = "string"
       THEN /\ setObj([Top.obj EXCEPT !.textures = Append(@, peek(i + 1).value)])
            /\ i' = i + 2
            /\ UNCHANGED <<doc, tokens, scene, log, pc, kept>>
       ELSE /\ i' = skipValue(i + 1)
            /\ UNCHANGED <<doc, tokens, stack, scene, log, pc, kept>>

\* material "NAME" | material rgb r g b | material { ... }
parseObject_material ==
    /\ InObjectLoop
    /\ memberId = "material"
    /\ LET m == parseMaterial(i + 1) IN
       IF m.ok
       THEN /\ setObj([Top.obj EXCEPT !.materials = @ \o m.mats])
            /\ i' = m.i
            /\ UNCHANGED <<doc, tokens, scene, log, pc, kept>>
       ELSE Raise(m.i)

\* translation, eulerxyz, fixedxyz, rotation
parseObject_transform ==
    /\ InObjectLoop
    /\ memberId \in {"translation", "eulerxyz", "fixedxyz", "rotation"}
    /\ LET t == parseTransform(i + 1, memberId) IN
       IF t.ok
       THEN /\ setObj([Top.obj EXCEPT !.transforms = @ \o t.transforms])
            /\ i' = t.i
            /\ UNCHANGED <<doc, tokens, scene, log, pc, kept>>
       ELSE Raise(t.i)

\* `view`: parseView starts; the optional view index is read
parseObject_view ==
    /\ InObjectLoop
    /\ memberId = "view"
    /\ LET hasIndex == peek(i + 1).type = "number" IN
       /\ stack' = Append(stack,
                     Frame("view", Null, "wrapper", Null, Null,
                           IF hasIndex THEN peek(i + 1).value ELSE Null))
       /\ i' = IF hasIndex THEN i + 2 ELSE i + 1
    /\ UNCHANGED <<doc, tokens, scene, log, pc, kept>>

\* `object`: the head of a nested parseObject; a missing brace is caught here
parseObject_object ==
    /\ InObjectLoop
    /\ memberId = "object"
    /\ LET h == blockHead(i + 1) IN
       IF h.ok
       THEN /\ stack' = Append(stack, ObjectFrame(newObject))
            /\ i' = h.i
            /\ log' = log
       ELSE /\ stack' = stack
            /\ i' = skipBlock(h.i)
            /\ log' = Append(log, "Nested object parse error")
    /\ UNCHANGED <<doc, tokens, scene, pc, kept>>

\* an unknown identifier with its block or value, a stray block or token
parseObject_skip ==
    /\ InObjectLoop
    /\ memberId \notin {"id", "material", "texture", "translation", "eulerxyz",
                        "fixedxyz", "rotation", "view", "object"}
    /\ ~(memberId = "name" /\ peek(i + 1).type = "string")
    /\ i' = IF peek(i).type = "ident" THEN
                IF peek(i + 1).type = "{" THEN skipBlock(i + 1)
                ELSE accept(skipValue(i + 1), ";")
            ELSE IF peek(i).type = "{" THEN skipBlock(i)
            ELSE i + 1
    /\ UNCHANGED <<doc, tokens, stack, scene, log, pc, kept>>

\* the closing brace: the object goes to its parent's children, or to
\* scene.objects when it has no parent
parseObject_end ==
    /\ InRule("object")
    /\ peek(i).type \in {"}", "EOF"}
    /\ i' = accept(i, "}")
    /\ IF Len(stack) > 1
       THEN /\ stack' = [Pop(stack) EXCEPT ![Len(stack) - 1].obj.children =
                                               Append(@, Top.obj)]
            /\ scene' = scene
       ELSE /\ stack' = <<>>
            /\ scene' = pushObject(scene, Top.obj)
    /\ UNCHANGED <<doc, tokens, log, pc, kept>>

---------------------------------------------------------------------------
(* parseView.  The view frame lies on the frame of its parentObject. *)

Primitives == {"RBOX", "CYL", "SPHERE", "indexed_poly", "N_LINE", "LINE",
               "QUAD_GRID", "N_POLY"}

InView(phase) == InRule("view") /\ Top.phase = phase

parentObject == stack[Len(stack) - 1].obj

\* the wrapper loop goes on while an identifier that is no primitive follows
\* no wrapper property is read before the brace
InWrapperLoop_off == FALSE

InWrapperLoop ==
    /\ InView("wrapper")
    /\ peek(i).type = "ident"
    /\ peek(i).value \in {"name", "material_index", "texture_index", "texture_mode"}
       \/ peek(i).value \notin Primitives

setTop(field, value) == stack' = [stack EXCEPT ![Len(stack)][field] = value]

\* the result of a primitive sub-rule whose throw parseView catches and
\* logs: the views are pushed, the cursor is left where the sub-rule stopped
afterPrimitive(r, popView, warning) ==
    /\ i' = r.i
    /\ stack' = LET stk == [stack EXCEPT ![Len(stack) - 1].obj = pushViews(@, r.views)]
                IN  IF popView THEN Pop(stk) ELSE stk
    /\ log' = IF r.ok THEN log ELSE Append(log, warning)
    /\ UNCHANGED <<doc, tokens, scene, pc, kept>>

\* one wrapper property before the brace
parseView_wrapper ==
    /\ InWrapperLoop
    /\ LET value == peek(i).value IN
       IF value = "name" THEN
           /\ i' = IF peek(i + 1).type = "string" THEN i + 2 ELSE i + 1
           /\ UNCHANGED <<doc, tokens, stack, scene, log, pc, kept>>
       ELSE IF value \in {"material_index", "texture_index"} THEN
           IF peek(i + 1).type = "number"
           THEN /\ setTop(value, peek(i + 1).value)
                /\ i' = i + 2
                /\ UNCHANGED <<doc, tokens, scene, log, pc, kept>>
           ELSE Raise(i + 2)
       ELSE IF value = "texture_mode" THEN
           /\ i' = i + 2
           /\ UNCHANGED <<doc, tokens, stack, scene, log, pc, kept>>
       ELSE /\ i' = IF peek(i + 1).type \in {"string", "number"} THEN i + 2 ELSE i + 1
            /\ UNCHANGED <<doc, tokens, stack, scene, log, pc, kept>>

\* the opening brace of the view body
parseView_open ==
    /\ InView("wrapper")
    /\ ~InWrapperLoop
    /\ peek(i).type = "{"
    /\ i' = i + 1
    /\ setTop("phase", "body")
    /\ UNCHANGED <<doc, tokens, scene, log, pc, kept>>

\* no brace: a single-line view with RBOX, CYL, QUAD_GRID or N_POLY, anything
\* else is skipped as one value; parseView returns
parseView_singleLine ==
    /\ InView("wrapper")
    /\ ~InWrapperLoop
    /\ peek(i).type # "{"
    /\ LET f == Top IN
       IF peek(i).type # "ident" THEN
           /\ stack' = Pop(stack)
           /\ UNCHANGED <<doc, tokens, i, scene, log, pc, kept>>
       ELSE IF peek(i).value = "RBOX" THEN
           LET r == parseRBox(i + 1, parentObject, f.material_index, f.view_index) IN
           IF r.ok THEN afterPrimitive(r, TRUE, "") ELSE Raise(r.i)
       ELSE IF peek(i).value = "CYL" THEN
           afterPrimitive(parseCyl(i + 1, parentObject, f.material_index, f.view_index),
                          TRUE, "CYL parse error in single-line view")
       ELSE IF peek(i).value = "QUAD_GRID" THEN
           afterPrimitive(parseQuadGrid(i + 1, parentObject, f.material_index,
                                        f.texture_index, f.view_index),
                          TRUE, "QUAD_GRID parse error in single-line view")
       ELSE IF peek(i).value = "N_POLY" THEN
           afterPrimitive(parseNPoly(i + 1, parentObject, f.material_index,
                                     f.texture_index, f.view_index),
                          TRUE, "N_POLY parse error in single-line view")
       ELSE /\ i' = skipValue(i)
            /\ stack' = Pop(stack)
            /\ UNCHANGED <<doc, tokens, scene, log, pc, kept>>

\* one iteration of the loop over the view body
parseView_body ==
    /\ InView("body")
    /\ peek(i).type \notin {"}", "EOF"}
    /\ LET f == Top
           value == peek(i).value
       IN
       IF peek(i).type = "ident" THEN
           IF value = "name" THEN
               /\ i' = IF peek(i + 1).type = "string" THEN i + 2 ELSE i + 1
               /\ UNCHANGED <<doc, tokens, stack, scene, log, pc, kept>>
           ELSE IF value \in {"material_index", "texture_index"} THEN
               IF peek(i + 1).type = "number"
               THEN /\ setTop(value, peek(i + 1).value)
                    /\ i' = i + 2
                    /\ UNCHANGED <<doc, tokens, scene, log, pc, kept>>
               ELSE Raise(i + 2)
           ELSE IF value = "RBOX" THEN
               LET r == parseRBox(i + 1, parentObject, f.material_index, f.view_index) IN
               IF r.ok THEN afterPrimitive(r, FALSE, "") ELSE Raise(r.i)
           ELSE IF value = "CYL" THEN
               afterPrimitive(parseCyl(i + 1, parentObject, f.material_index,
                                       f.view_index),
                              FALSE, "CYL parse error in view")
           ELSE IF value = "indexed_poly" THEN
               afterPrimitive(parseIndexedPoly(i + 1, f.material_index, f.texture_index,
                                               parentObject, f.view_index),
                              FALSE, "indexed_poly parse error in view")
           ELSE IF value = "N_LINE" \/ value = "LINE" THEN
               afterPrimitive(parseLinePrimitive(i + 1, value, parentObject,
                                 f.material_index, f.texture_index, f.view_index),
                              FALSE, "N_LINE/LINE parse error in view")
           ELSE IF value = "SPHERE" THEN
               afterPrimitive(parseSphereInView(i + 1, parentObject, f.material_index,
                                                f.texture_index, f.view_index),
                              FALSE, "SPHERE parse error in view")
           ELSE IF value = "QUAD_GRID" THEN
               afterPrimitive(parseQuadGrid(i + 1, parentObject, f.material_index,
                                            f.texture_index, f.view_index),
                              FALSE, "QUAD_GRID parse error in view")
           ELSE IF value = "N_POLY" THEN
               afterPrimitive(parseNPoly(i + 1, parentObject, f.material_index,
                                         f.texture_index, f.view_index),
                              FALSE, "N_POLY parse error in view")
           ELSE /\ i' = accept(skipValue(i + 1), ";")
                /\ UNCHANGED <<doc, tokens, stack, scene, log, pc, kept>>
       ELSE /\ i' = IF peek(i).type = "{" THEN skipBlock(i) ELSE i + 1
            /\ UNCHANGED <<doc, tokens, stack, scene, log, pc, kept>>

\* the closing brace of the view body
parseView_end ==
    /\ InView("body")
    /\ peek(i).type \in {"}", "EOF"}
    /\ i' = accept(i, "}")
    /\ stack' = Pop(stack)
    /\ UNCHANGED <<doc, tokens, scene, log, pc, kept>>

---------------------------------------------------------------------------
(* Documents.  A document is described by a record; tokensOf gives the     *)
(* token sequence tokenize() returns for its text.                         *)

V3(x, y, z) == <<Id("v"), N(x), N(y), N(z)>>
D(n) == Num(Rat(n, 10))

\* the sequences over S of length at most n
RECURSIVE SeqsUpTo(_, _)
SeqsUpTo(S, n) ==
    IF n = 0 THEN {<<>>}
    ELSE LET shorter == SeqsUpTo(S, n - 1)
         IN  shorter \cup {Append(q, x) : q \in {r \in shorter : Len(r) = n - 1}, x \in S}

\* world "T" { background 0.1 0.2 0.3; start v 1 2 3 }
ScenarioA ==
    <<Id("world"), Str("T"), P("{"), Id("background"), D(1), D(2), D(3), P(";"),
      Id("start")>> \o V3(1, 2, 3) \o <<P("}")>>

\* object { material rgb 1 0 0 view { RBOX v -1 -1 -1 v 1 1 1 } } }
ScenarioB ==
    <<Id("object"), P("{"), Id("material"), Id("rgb"), N(1), N(0), N(0),
      Id("view"), P("{"), Id("RBOX")>> \o V3(-1, -1, -1) \o V3(1, 1, 1)
      \o <<P("}"), P("}"), P("}")>>

ScenarioNames == {"A", "B"}

scenarioTokens(name) ==
    CASE name = "A" -> ScenarioA
      [] name = "B" -> ScenarioB

\* the properties of a world block
WorldProps == {"background", "start", "start_plain", "fog"}

worldPropTokens(prop) ==
    CASE prop = "background" -> <<Id("background"), D(1), D(2), D(3)>>
      [] prop = "start" -> <<Id("start")>> \o V3(1, 2, 3)
      [] prop = "start_plain" -> <<Id("start"), N(1), N(2), N(3)>>
      [] prop = "fog" -> <<Id("fog"), D(5)>>

MaxWorldProps == 2

\* world ["T"] { prop [;] prop ... }
WorldDocs ==
    {[family |-> "world", named |-> nm, props |-> ps, semicolons |-> sc] :
        nm \in BOOLEAN, ps \in SeqsUpTo(WorldProps, MaxWorldProps), sc \in BOOLEAN}

worldTokens(d) ==
    <<Id("world")>> \o (IF d.named THEN <<Str("T")>> ELSE <<>>) \o <<P("{")>>
    \o flatten([k \in 1..Len(d.props) |->
                  (IF d.semicolons /\ k > 1 THEN <<P(";")>> ELSE <<>>)
                  \o worldPropTokens(d.props[k])])
    \o <<P("}")>>

ScenarioDocs == {[family |-> "scenario", name |-> n] : n \in ScenarioNames}

\* the members of an object body -------------------------------------------

Braced(body) == <<Id("view"), P("{")>> \o body \o <<P("}")>>
Line(body) == <<Id("view")>> \o body

RBoxOk == <<Id("RBOX")>> \o V3(-1, -1, -1) \o V3(1, 1, 1)
CylOk == <<Id("CYL"), N(1), N(1), N(2)>>
Tri == V3(0, 0, 0) \o V3(1, 0, 0) \o V3(1, 1, 0)
Quad == V3(0, 0, 0) \o V3(0, 2, 0) \o V3(2, 0, 0) \o V3(2, 2, 0)
VertexList == <<Id("vertexlist"), P("{"), N(0), N(0), N(0), P(","), N(1), N(0), N(0),
                P(","), N(1), N(1), N(0), P("}")>>
PolyList == <<Id("polylist"), P("{"), N(0), N(1), N(2), N(-1), P("}")>>

\* well-formed views, one or more per primitive
GoodViews == {"rbox", "rbox_line", "cyl", "cyl_flags", "cyl_line", "sphere",
              "sphere3", "lines", "line", "quad", "quad_line", "npoly",
              "npoly_line", "poly", "poly_normals", "poly_nindex"}

\* views whose primitive has an arity or type mismatch
CylNoHeight == {"cyl_nh", "cyl_nh_flags", "cyl_nh_line", "cyl_nh_line_flags"}
BadViews == CylNoHeight \cup
            {"cyl_type", "rbox_short", "rbox_type", "rbox_line_short", "sphere_two",
             "lines_short", "quad_short", "quad_type", "quad_line_short",
             "npoly_short", "npoly_line_short", "poly_short", "poly_unclosed"}

GoodMaterials == {"mat_rgb", "mat_RGB", "mat_named", "mat_block"}
BadMaterials == {"mat_rgb_short", "mat_block_short", "mat_block_power"}
GoodTransforms == {"translation", "eulerxyz", "fixedxyz", "rotation"}
BadTransforms == {"translation_short", "eulerxyz_short", "fixedxyz_type",
                  "rotation_short"}
Children == {"child_empty", "child_mat", "child_deep"}
Properties == {"id", "name", "texture"}

Members == GoodViews \cup BadViews \cup GoodMaterials \cup BadMaterials
           \cup GoodTransforms \cup BadTransforms \cup Children \cup Properties

memberTokens(m) ==
    CASE m = "rbox" -> Braced(RBoxOk)
      [] m = "rbox_line" -> Line(RBoxOk)
      [] m = "cyl" -> Braced(CylOk)
      [] m = "cyl_flags" -> Braced(<<Id("CYL")>> \o V3(0, 0, 0)
                                    \o <<N(1), N(1), N(2), D(5), Id("PART_TOP")>>)
      [] m = "cyl_line" -> Line(CylOk)
      [] m = "sphere" -> Braced(<<Id("SPHERE"), N(1)>>)
      [] m = "sphere3" -> Braced(<<Id("SPHERE"), N(1), N(2), N(3)>>)
      [] m = "lines" -> Braced(<<Id("N_LINE"), N(2)>> \o V3(0, 0, 0) \o V3(1, 0, 0))
      [] m = "line" -> Braced(<<Id("LINE")>> \o V3(0, 0, 0) \o V3(1, 0, 0))
      [] m = "quad" -> Braced(<<Id("QUAD_GRID"), N(2), N(2)>> \o Quad)
      [] m = "quad_line" -> Line(<<Id("QUAD_GRID"), N(2), N(2)>> \o Quad)
      [] m = "npoly" -> Braced(<<Id("N_POLY"), N(3)>> \o Tri)
      [] m = "npoly_line" -> Line(<<Id("N_POLY"), N(3)>> \o Tri)
      [] m = "poly" -> Braced(<<Id("indexed_poly"), Id("POLYGON")>> \o VertexList \o PolyList)
      [] m = "poly_normals" ->
            Braced(<<Id("indexed_poly"), Id("POLYGON")>> \o VertexList
                   \o <<Id("normallist"), P("{"), N(0), N(0), N(1), P(","),
                        N(0), N(1), N(0), P("}")>>
                   \o PolyList)
      [] m = "poly_nindex" ->
            Braced(<<Id("indexed_poly"), Id("POLYGON")>> \o VertexList
                   \o <<Id("normallist"), P("{"), N(0), N(0), N(1), P("}"),
                        Id("normalindexlist"), P("{"), N(0), N(0), N(-1), P("}")>>
                   \o PolyList)
      [] m = "cyl_nh" -> Braced(<<Id("CYL"), N(1), N(2)>>)
      [] m = "cyl_nh_flags" -> Braced(<<Id("CYL"), N(1), N(2), Id("PART_TOP")>>)
      [] m = "cyl_nh_line" -> Line(<<Id("CYL"), N(1), N(2)>>)
      [] m = "cyl_nh_line_flags" -> Line(<<Id("CYL"), N(1), N(2), Id("PART_TOP")>>)
      [] m = "cyl_type" -> Braced(<<Id("CYL"), N(1), Str("wide"), N(2)>>)
      [] m = "rbox_short" -> Braced(<<Id("RBOX")>> \o V3(0, 0, 0) \o <<Id("v"), N(1), N(1)>>)
      [] m = "rbox_type" -> Braced(<<Id("RBOX")>> \o V3(0, 0, 0)
                                    \o <<Id("v"), N(1), Str("one"), N(1)>>)
      [] m = "rbox_line_short" -> Line(<<Id("RBOX")>> \o V3(0, 0, 0) \o <<Id("v"), N(1), N(1)>>)
      [] m = "sphere_two" -> Braced(<<Id("SPHERE"), N(1), N(2)>>)
      [] m = "lines_short" -> Braced(<<Id("N_LINE"), N(2)>> \o V3(0, 0, 0) \o <<Id("v"), N(1), N(0)>>)
      [] m = "quad_short" -> Braced(<<Id("QUAD_GRID"), N(2)>>)
      [] m = "quad_type" -> Braced(<<Id("QUAD_GRID"), N(2), Str("two")>> \o Quad)
      [] m = "quad_line_short" -> Line(<<Id("QUAD_GRID"), N(2), N(2)>> \o Tri)
      [] m = "npoly_short" -> Braced(<<Id("N_POLY"), N(3)>> \o V3(0, 0, 0) \o V3(1, 0, 0))
      [] m = "npoly_line_short" -> Line(<<Id("N_POLY"), N(3)>> \o V3(0, 0, 0) \o V3(1, 0, 0))
      [] m = "poly_short" -> Braced(<<Id("indexed_poly"), Id("POLYGON"), Id("vertexlist"), P("{"),
                                      N(0), N(0), N(0), P(","), N(1), N(0), P("}")>> \o PolyList)
      [] m = "poly_unclosed" -> Braced(<<Id("indexed_poly"), Id("POLYGON")>> \o VertexList
                                        \o <<Id("polylist"), N(0), N(1), N(2), N(-1)>>)
      [] m = "mat_rgb" -> <<Id("material"), Id("rgb"), N(1), N(0), N(0)>>
      [] m = "mat_RGB" -> <<Id("material"), Id("RGB"), N(0), N(1), N(0)>>
      [] m = "mat_named" -> <<Id("material"), Str("RED")>>
      [] m = "mat_block" -> <<Id("material"), P("{"), Id("diffuse"), N(0), N(0), N(1),
                              Id("spec_power"), D(5), P("}")>>
      [] m = "mat_rgb_short" -> <<Id("material"), Id("rgb"), N(1), N(0)>>
      [] m = "mat_block_short" -> <<Id("material"), P("{"), Id("diffuse"), N(0), N(1), P("}")>>
      [] m = "mat_block_power" -> <<Id("material"), P("{"), Id("spec_power"), P("}")>>
      [] m = "translation" -> <<Id("translation")>> \o V3(1, 2, 3)
      [] m = "eulerxyz" -> <<Id("eulerxyz")>> \o V3(0, 90, 0)
      [] m = "fixedxyz" -> <<Id("fixedxyz"), N(0), N(0), N(90)>>
      [] m = "rotation" -> <<Id("rotation")>> \o V3(1, 0, 0) \o V3(0, 1, 0) \o V3(0, 0, 1)
      [] m = "translation_short" -> <<Id("translation"), Id("v"), N(1), N(2)>>
      [] m = "eulerxyz_short" -> <<Id("eulerxyz"), Id("v"), N(0)>>
      [] m = "fixedxyz_type" -> <<Id("fixedxyz"), Id("v"), N(0), Str("half"), N(0)>>
      [] m = "rotation_short" -> <<Id("rotation")>> \o V3(1, 0, 0) \o V3(0, 1, 0)
                                  \o <<Id("v"), N(0), N(0)>>
      [] m = "child_empty" -> <<Id("object"), P("{"), P("}")>>
      [] m = "child_mat" -> <<Id("Object"), Str("leaf"), P("{"), Id("material"), Id("rgb"),
                              N(0), N(0), N(1), P("}")>>
      [] m = "child_deep" -> <<Id("object"), P("{"), Id("material"), Str("RED"),
                               Id("object"), P("{"), Id("view")>> \o CylOk
                              \o <<P("}"), P("}")>>
      [] m = "id" -> <<Id("id"), N(7)>>
      [] m = "name" -> <<Id("name"), Str("box")>>
      [] m = "texture" -> <<Id("texture"), Str("wood.png")>>

\* the members written around the one under test: one of each kind
Siblings == {"rbox", "mat_rgb", "translation", "child_mat"}

MaxBefore == 1
MaxAfter == 1

\* object { before... member after... }
ObjectDocs ==
    {[family |-> "object", before |-> b, member |-> m, after |-> a] :
        b \in SeqsUpTo(Siblings, MaxBefore), m \in Members,
        a \in SeqsUpTo(Siblings, MaxAfter)}

bodyOf(d) == d.before \o <<d.member>> \o d.after

objectTokens(d) ==
    <<Id("object"), P("{")>>
    \o flatten([k \in 1..Len(bodyOf(d)) |-> memberTokens(bodyOf(d)[k])])
    \o <<P("}")>>

\* views with a material_index, in objects with materials -----------------

\* the primitives, each well-formed
PrimitiveKinds == {"RBOX", "CYL", "SPHERE", "N_LINE", "QUAD_GRID", "N_POLY", "indexed_poly"}

primitiveTokens(kind) ==
    CASE kind = "RBOX" -> RBoxOk
      [] kind = "CYL" -> CylOk
      [] kind = "SPHERE" -> <<Id("SPHERE"), N(1)>>
      [] kind = "N_LINE" -> <<Id("N_LINE"), N(2)>> \o V3(0, 0, 0) \o V3(1, 0, 0)
      [] kind = "QUAD_GRID" -> <<Id("QUAD_GRID"), N(2), N(2)>> \o Quad
      [] kind = "N_POLY" -> <<Id("N_POLY"), N(3)>> \o Tri
      [] kind = "indexed_poly" -> <<Id("indexed_poly"), Id("POLYGON")>> \o VertexList \o PolyList

MaxMaterials == 2

\* no material_index (Null), the indices 0 .. MaxMaterials (the last one out
\* of range), a negative and a fractional one
IndexChoices == {Null, R(-1), Rat(1, 2)} \cup {R(k) : k \in 0..MaxMaterials}

\* object { material rgb ... view [material_index K] { [material_index K] PRIM } }
IndexedDocs ==
    {[family |-> "indexed", materials |-> n, kind |-> k, index |-> x, inside |-> b] :
        n \in 1..MaxMaterials, k \in PrimitiveKinds, x \in IndexChoices, b \in BOOLEAN}

indexedTokens(d) ==
    LET idx == IF d.index = Null THEN <<>> ELSE <<Id("material_index"), Num(d.index)>> IN
    <<Id("object"), P("{")>>
    \o flatten([k \in 1..d.materials |-> <<Id("material"), Id("rgb"), N(k), N(0), N(0)>>])
    \o <<Id("view")>> \o (IF d.inside THEN <<>> ELSE idx) \o <<P("{")>>
    \o (IF d.inside THEN idx ELSE <<>>) \o primitiveTokens(d.kind)
    \o <<P("}"), P("}")>>

\* indexed_poly faces -------------------------------------------------------

\* the vertexlist: the corners of a cube of side 2 (0..7) and three more
\* points of the plane z = 0 (8..10)
PolyVertices ==
    <<<<0, 0, 0>>, <<2, 0, 0>>, <<2, 2, 0>>, <<0, 2, 0>>,
      <<0, 0, 2>>, <<2, 0, 2>>, <<2, 2, 2>>, <<0, 2, 2>>,
      <<1, 1, 0>>, <<2, 1, 0>>, <<1, 2, 0>>>>

\* simple planar polygons over the vertexlist, in both winding directions;
\* quad_diag is the diagonal section x = y of the cube
FaceNames == {"tri", "tri_rev", "quad_z", "quad_z_rev", "quad_y", "quad_y_rev",
              "quad_x", "quad_x_rev", "pentagon", "hexagon_L", "quad_diag"}

faceIndices(f) ==
    CASE f = "tri" -> <<0, 1, 2>>
      [] f = "tri_rev" -> <<2, 1, 0>>
      [] f = "quad_z" -> <<0, 1, 2, 3>>
      [] f = "quad_z_rev" -> <<3, 2, 1, 0>>
      [] f = "quad_y" -> <<0, 1, 5, 4>>
      [] f = "quad_y_rev" -> <<4, 5, 1, 0>>
      [] f = "quad_x" -> <<0, 3, 7, 4>>
      [] f = "quad_x_rev" -> <<4, 7, 3, 0>>
      [] f = "pentagon" -> <<0, 1, 9, 10, 3>>
      [] f = "hexagon_L" -> <<0, 1, 9, 8, 10, 3>>
      [] f = "quad_diag" -> <<0, 2, 6, 4>>

MaxFaces == 2

PolyDocs ==
    {[family |-> "poly", faces |-> fs] :
        fs \in SeqsUpTo(FaceNames, MaxFaces) \ {<<>>}}

\* object { view { indexed_poly POLYGON vertexlist { ... } polylist { f -1 f -1 } } }
polyTokens(d) ==
    <<Id("object"), P("{"), Id("view"), P("{"), Id("indexed_poly"), Id("POLYGON"),
      Id("vertexlist"), P("{")>>
    \o flatten([k \in 1..Len(PolyVertices) |->
                  <<N(PolyVertices[k][1]), N(PolyVertices[k][2]), N(PolyVertices[k][3]), P(",")>>])
    \o <<P("}"), Id("polylist"), P("{")>>
    \o flatten([k \in 1..Len(d.faces) |->
                  [j \in 1..Len(faceIndices(d.faces[k])) |-> N(faceIndices(d.faces[k])[j])]
                  \o <<N(-1)>>])
    \o <<P("}"), P("}"), P("}")>>

\* N_POLY --------------------------------------------------------------------

MaxCount == 5

NPolyDocs ==
    {[family |-> "npoly", count |-> c, braced |-> b, textured |-> t] :
        c \in 3..MaxCount, b \in BOOLEAN, t \in BOOLEAN}

\* vertex k of the polygon, with its texture coordinates when asked
npolyVertex(k, textured) ==
    V3(k, k * k, 1) \o (IF textured THEN <<Id("t"), N(k), N(0)>> ELSE <<>>)

\* object { view { N_POLY count v ... } }  or  object { view N_POLY count v ... }
npolyTokens(d) ==
    LET prim == <<Id("N_POLY"), N(d.count)>>
                \o flatten([k \in 1..d.count |-> npolyVertex(k - 1, d.textured)])
    IN  <<Id("object"), P("{")>>
        \o (IF d.braced THEN Braced(prim) ELSE Line(prim))
        \o <<P("}")>>

\* a box written by its two corners, and again with the corners exchanged --

RBoxCorners == {<<x, y, z>> : x \in {-1, 2}, y \in {0, 1}, z \in {-2, 2}}

RBoxDocs == {[family |-> "rbox", a |-> a, b |-> b] : a, b \in RBoxCorners}

\* object { view { RBOX A B } } object { view { RBOX B A } }
rboxTokens(d) ==
    <<Id("object"), P("{")>>
    \o Braced(<<Id("RBOX")>> \o V3(d.a[1], d.a[2], d.a[3]) \o V3(d.b[1], d.b[2], d.b[3]))
    \o <<P("}"), Id("object"), P("{")>>
    \o Braced(<<Id("RBOX")>> \o V3(d.b[1], d.b[2], d.b[3]) \o V3(d.a[1], d.a[2], d.a[3]))
    \o <<P("}")>>

\* top-level statements, known and unknown -------------------------------

TopItems == {"unk_block", "unk_nested", "unk_value", "unk_value_semi",
             "world_bg", "object", "object_a"}

topItemTokens(m) ==
    CASE m = "unk_block" ->
           <<Id("foo"), P("{"), Id("bar"), N(1), N(2), N(3), P("}")>>
      [] m = "unk_nested" ->
           <<Id("foo"), P("{"), Id("world"), P("{"), Id("background"), D(9), D(9), D(9),
             P("}"), Id("object"), P("{"), P("}"), P("}")>>
      [] m = "unk_value" -> <<Id("foo"), N(1)>>
      [] m = "unk_value_semi" -> <<Id("foo"), N(1), P(";")>>
      [] m = "world_bg" ->
           <<Id("world"), P("{"), Id("background"), D(1), D(2), D(3), P("}")>>
      [] m = "object" -> <<Id("object"), P("{"), P("}")>>
      [] m = "object_a" -> <<Id("object"), P("{"), Id("name"), Str("a"), P("}")>>

MaxItems == 2

TopDocs == {[family |-> "toplevel", items |-> q] : q \in SeqsUpTo(TopItems, MaxItems)}

topTokens(d) == flatten([k \in 1..Len(d.items) |-> topItemTokens(d.items[k])])

\* a world block with an object declared after it -------------------------

Separators == {"none", "between", "after"}

WorldThenDocs ==
    {[family |-> "world_then", props |-> ps, semicolons |-> sc] :
        ps \in SeqsUpTo(WorldProps, MaxWorldProps), sc \in Separators}

\* world { prop [;] prop [;] }
worldBlock(d) ==
    <<Id("world"), P("{")>>
    \o flatten([k \in 1..Len(d.props) |->
                  worldPropTokens(d.props[k])
                  \o (IF d.semicolons = "after" \/ (d.semicolons = "between" /\ k < Len(d.props))
                      THEN <<P(";")>> ELSE <<>>)])
    \o <<P("}")>>

\* world { ... } object { name "a" }
worldThenTokens(d) == worldBlock(d) \o <<Id("object"), P("{"), Id("name"), Str("a"), P("}")>>

\* an unrecognized keyword in an object body, and the member after it ------

Unknowns == {"flag", "value", "string", "vector", "block", "bare", "semicolon"}

unknownTokens(u) ==
    CASE u = "flag" -> <<Id("FLAG"), Id("wireframe"), Id("on")>>
      [] u = "value" -> <<Id("gateway"), N(1)>>
      [] u = "string" -> <<Id("gateway"), Str("x")>>
      [] u = "vector" -> <<Id("gateway")>> \o V3(1, 2, 3)
      [] u = "block" -> <<Id("light"), P("{"), Id("color"), N(1), P("}")>>
      [] u = "bare" -> <<Id("visible")>>
      [] u = "semicolon" -> <<Id("gateway"), N(1), P(";")>>

SkipDocs ==
    {[family |-> "skip", unknown |-> u, sibling |-> sb] :
        u \in Unknowns, sb \in SeqsUpTo({"rbox", "child_mat"}, 1)}

\* object { UNKNOWN [sibling] }
skipTokens(d) ==
    <<Id("object"), P("{")>> \o unknownTokens(d.unknown)
    \o flatten([k \in 1..Len(d.sibling) |-> memberTokens(d.sibling[k])])
    \o <<P("}")>>

\* QUAD_GRID ------------------------------------------------------------------

MaxGrid == 3

\* the corners p0 (0,0), p1 (0,1), p2 (1,0), p3 (1,1) of the grid
GridCorners == <<<<0, 0, 0>>, <<0, 6, 0>>, <<6, 0, 0>>, <<6, 6, 6>>>>

GridDocs ==
    {[family |-> "grid", nx |-> nx, ny |-> ny, braced |-> b] :
        nx \in -1..MaxGrid, ny \in -1..MaxGrid, b \in BOOLEAN}

\* object { view { QUAD_GRID nx ny v .. v .. v .. v .. } }, or without braces
gridTokens(d) ==
    LET prim == <<Id("QUAD_GRID"), N(d.nx), N(d.ny)>>
                \o flatten([k \in 1..4 |->
                      V3(GridCorners[k][1], GridCorners[k][2], GridCorners[k][3])])
    IN  <<Id("object"), P("{")>>
        \o (IF d.braced THEN Braced(prim) ELSE Line(prim))
        \o <<P("}")>>

\* view bodies with several primitives ------------------------------------------

MaxPrims == 2

BodyDocs == {[family |-> "body", prims |-> q] : q \in SeqsUpTo(PrimitiveKinds, MaxPrims)}

\* object { view { PRIM PRIM ... } }
bodyTokens(d) ==
    <<Id("object"), P("{")>>
    \o Braced(flatten([k \in 1..Len(d.prims) |-> primitiveTokens(d.prims[k])]))
    \o <<P("}")>>

\* wrapper properties before the brace and inside the body ---------------------

WrapperProps == {"material_index", "texture_index", "name", "name_bare", "texture_mode"}

\* the indices 0 (a material, a texture), 1 (none) and a fractional one
WrapperValues == {R(0), R(1), Rat(1, 2)}

WrappedDocs ==
    {[family |-> "wrapped", prop |-> w, value |-> v, kind |-> k] :
        w \in WrapperProps, v \in WrapperValues, k \in PrimitiveKinds}

wrapperTokens(d) ==
    CASE d.prop \in {"material_index", "texture_index"} -> <<Id(d.prop), Num(d.value)>>
      [] d.prop = "name" -> <<Id("name"), Str("n")>>
      [] d.prop = "name_bare" -> <<Id("name")>>
      [] d.prop = "texture_mode" -> <<Id("texture_mode"), Id("TEXTURE_DECAL")>>

\* object { material rgb 1 0 0 texture "t" view PROP { PRIM } }
\* object { material rgb 1 0 0 texture "t" view { PROP PRIM } }
wrappedTokens(d) ==
    LET head == <<Id("object"), P("{"), Id("material"), Id("rgb"), N(1), N(0), N(0),
                  Id("texture"), Str("t"), Id("view")>>
    IN  head \o wrapperTokens(d) \o <<P("{")>> \o primitiveTokens(d.kind) \o <<P("}"), P("}")>>
        \o head \o <<P("{")>> \o wrapperTokens(d) \o primitiveTokens(d.kind) \o <<P("}"), P("}")>>

\* faces that name a vertex outside the vertexlist -----------------------------

\* the vertexlist has the vertices 0, 1 and 2
OutIndices == {-3, -2, 3, 4}

OutPolyDocs ==
    {[family |-> "outpoly", index |-> x, corners |-> n] : x \in OutIndices, n \in {3, 4}}

\* object { view { indexed_poly POLYGON vertexlist { .. } polylist { 0 1 [2] x -1 } } }
outPolyTokens(d) ==
    <<Id("object"), P("{")>>
    \o Braced(<<Id("indexed_poly"), Id("POLYGON")>> \o VertexList
              \o <<Id("polylist"), P("{"), N(0), N(1)>>
              \o (IF d.corners = 4 THEN <<N(2)>> ELSE <<>>)
              \o <<N(d.index), N(-1), P("}")>>)
    \o <<P("}")>>

tokensOf(d) ==
    (CASE d.family = "scenario" -> scenarioTokens(d.name)
       [] d.family = "world" -> worldTokens(d)
       [] d.family = "object" -> objectTokens(d)
       [] d.family = "indexed" -> indexedTokens(d)
       [] d.family = "poly" -> polyTokens(d)
       [] d.family = "npoly" -> npolyTokens(d)
       [] d.family = "rbox" -> rboxTokens(d)
       [] d.family = "toplevel" -> topTokens(d)
       [] d.family = "world_then" -> worldThenTokens(d)
       [] d.family = "skip" -> skipTokens(d)
       [] d.family = "grid" -> gridTokens(d)
       [] d.family = "body" -> bodyTokens(d)
       [] d.family = "wrapped" -> wrappedTokens(d)
       [] d.family = "outpoly" -> outPolyTokens(d))
    \o <<EOFTok>>

Docs == ScenarioDocs \cup WorldDocs \cup ObjectDocs \cup IndexedDocs
        \cup PolyDocs \cup NPolyDocs \cup RBoxDocs
        \cup TopDocs \cup WorldThenDocs \cup SkipDocs \cup GridDocs
        \cup BodyDocs \cup WrappedDocs \cup OutPolyDocs

\* the scene handed to the parser: a fresh one, or for the top-level
\* documents also one that has no objects field yet
Scenes(d) == IF d.family = "toplevel" THEN {emtpyScene, bareScene} ELSE {emtpyScene}

---------------------------------------------------------------------------
(* parseVrIntoScene(scene, text) *)

Init ==
    /\ doc \in Docs
    /\ tokens = tokensOf(doc)
    /\ i = 0
    /\ stack = <<>>
    /\ scene \in Scenes(doc)
    /\ log = <<>>
    /\ pc = "parse"
    /\ kept = Null

Next ==
    \/ parseTopLevel_world
    \/ parseTopLevel_object
    \/ parseTopLevel_unknown
    \/ parseTopLevel_stray
    \/ parseVrIntoScene_return
    \/ parseWorld_loop
    \/ parseWorld_end
    \/ parseObject_property
    \/ parseObject_material
    \/ parseObject_transform
    \/ parseObject_view
    \/ parseObject_object
    \/ parseObject_skip
    \/ parseObject_end
    \/ parseView_wrapper
    \/ parseView_open
    \/ parseView_singleLine
    \/ parseView_body
    \/ parseView_end

Spec == Init /\ [][Next]_vars

---------------------------------------------------------------------------
(* Several calls, one after the other, each into a fresh empty scene *)

\* the documents of the calls: the two scenarios, the top-level statements
\* and an object with one member of each kind
SessionMembers == {"rbox_line", "rbox_short", "cyl_nh_line_flags", "mat_rgb",
                   "translation", "child_mat", "id"}

SessionDocs ==
    ScenarioDocs
    \cup {[family |-> "toplevel", items |-> <<m>>] : m \in TopItems}
    \cup {[family |-> "object", before |-> <<>>, member |-> m, after |-> <<>>] :
             m \in SessionMembers}
    \cup {[family |-> "indexed", materials |-> 1, kind |-> "RBOX", index |-> R(0),
            inside |-> FALSE]}

newParser_resume(toks) == [tokens |-> toks, i |-> i]

\* constructor(tokens) { this.tokens = tokens; this.i = 0; }
newParser(toks) == [tokens |-> toks, i |-> 0]

\* the caller may keep the returned scene, and calls parseVrIntoScene again
\* with emtpyScene() and a text
parseVrIntoScene_call ==
    /\ pc = "done"
    /\ doc' \in SessionDocs
    /\ tokens' = newParser(tokensOf(doc')).tokens
    /\ i' = newParser(tokensOf(doc')).i
    /\ stack' = <<>>
    /\ scene' = emtpyScene
    /\ log' = <<>>
    /\ pc' = "parse"
    /\ kept' \in {kept, [doc |-> doc, scene |-> scene]}

SessionInit == Init /\ doc \in SessionDocs /\ scene = emtpyScene

SessionNext == Next \/ parseVrIntoScene_call

SessionSpec == SessionInit /\ [][SessionNext]_vars

Done == pc = "done"

---------------------------------------------------------------------------
(* tokenize.  A text is a sequence of characters; `i` is the index of the   *)
(* lexer into the text (0-based as in the source) and `tokens` the tokens  *)
(* pushed so far.  A string token carries its characters as a sequence, a  *)
(* number token the matched characters (raw).                              *)

Whitespace == {" ", "\n", "\t", "\r"}
Punctuation == {"{", "}", "(", ")", ",", ";"}
Digits == {"0", "1", "2", "3", "4", "5", "6", "7", "8", "9"}
Letters == {"a", "b", "c", "d", "e", "v", "x", "A", "E", "V", "X"}

\* the index of the first "*/" at or after q (1-based), 0 when there is none
RECURSIVE blockClose(_, _)
blockClose(s, q) ==
    IF q + 1 > Len(s) THEN 0
    ELSE IF s[q] = "*" /\ s[q + 1] = "/" THEN q
    ELSE blockClose(s, q + 1)

blanked(s, from, to) == [k \in 1..Len(s) |-> IF k >= from /\ k <= to THEN " " ELSE s[k]]

\* input.replace(/\/\*[\s\S]*?\*\//g, spaces), scanning from p
RECURSIVE removeBlockComments(_, _)
removeBlockComments(s, p) ==
    IF p + 1 > Len(s) THEN s
    ELSE IF s[p] = "/" /\ s[p + 1] = "*" /\ blockClose(s, p + 2) # 0
         THEN removeBlockComments(blanked(s, p, blockClose(s, p + 2) + 1),
                                  blockClose(s, p + 2) + 2)
    ELSE removeBlockComments(s, p + 1)

\* does a line comment of the given width (1 for %, 2 for //) start at p
commentAt(s, p, width) ==
    IF width = 1 THEN s[p] = "%"
    ELSE p + 1 <= Len(s) /\ s[p] = "/" /\ s[p + 1] = "/"

\* input.replace(/%.*$/gm, spaces) and input.replace(/\/\/.*$/gm, spaces)
RECURSIVE removeLineComments(_, _, _, _)
removeLineComments(s, p, width, inside) ==
    IF p > Len(s) THEN s
    ELSE IF s[p] \in {"\n", "\r"} THEN removeLineComments(s, p + 1, width, FALSE)
    ELSE IF inside \/ commentAt(s, p, width)
         THEN removeLineComments(blanked(s, p, p), p + 1, width, TRUE)
    ELSE removeLineComments(s, p + 1, width, FALSE)

removeComments(s) ==
    removeLineComments(removeLineComments(removeBlockComments(s, 1), 1, 1, FALSE),
                       1, 2, FALSE)

isIdentStart(ch) == ch \in Letters \cup {"_"}
\* the characters isIdent accepts
IdentChars == Letters \cup Digits \cup {"_", "-"}

\* the number of characters from 1-based position q on that are all in S
RECURSIVE run(_, _, _)
run(s, q, S) == IF q <= Len(s) /\ s[q] \in S THEN 1 + run(s, q + 1, S) ELSE 0

charAt(s, q) == IF q >= 1 /\ q <= Len(s) THEN s[q] ELSE ""

\* (?:\d*\.\d+|\d+) at q: the length of the match, 0 when there is none
mantissa(s, q) ==
    IF charAt(s, q + run(s, q, Digits)) = "." /\ run(s, q + run(s, q, Digits) + 1, Digits) > 0
    THEN run(s, q, Digits) + 1 + run(s, q + run(s, q, Digits) + 1, Digits)
    ELSE run(s, q, Digits)

\* (?:[eE][+-]?\d+)? at q
exponent(s, q) ==
    IF charAt(s, q) \notin {"e", "E"} THEN 0
    ELSE IF charAt(s, q + 1) \in {"+", "-"}
         THEN (IF run(s, q + 2, Digits) > 0 THEN 2 + run(s, q + 2, Digits) ELSE 0)
    ELSE IF run(s, q + 1, Digits) > 0 THEN 1 + run(s, q + 1, Digits) ELSE 0

\* /^[+-]?(?:\d*\.\d+|\d+)(?:[eE][+-]?\d+)?/ at q: the length of the match
numMatch(s, q) ==
    IF charAt(s, q) \in {"+", "-"}
    THEN (IF mantissa(s, q + 1) = 0 THEN 0
          ELSE 1 + mantissa(s, q + 1) + exponent(s, q + 1 + mantissa(s, q + 1)))
    ELSE IF mantissa(s, q) = 0 THEN 0
    ELSE mantissa(s, q) + exponent(s, q + mantissa(s, q))

\* the loop over a quoted string from 1-based position j: where it ends (the
\* 0-based index after the closing quote, or the length) and its characters
RECURSIVE scanString(_, _, _)
scanString(s, j, str) ==
    IF j > Len(s) THEN [j |-> Len(s), str |-> str]
    ELSE IF s[j] = "\\" /\ j + 1 <= Len(s) THEN scanString(s, j + 2, Append(str, s[j + 1]))
    ELSE IF s[j] = "\"" THEN [j |-> j, str |-> str]
    ELSE scanString(s, j + 1, Append(str, s[j]))

symbolToken_eof(ch) == [type |-> "EOF"]

\* tokens.push({ type: input[i], value: input[i] })
symbolToken(ch) == [type |-> ch, value |-> ch]

input == removeComments(doc.text)

InLexer == pc = "lex" /\ i < Len(input)

tokenize_whitespace ==
    /\ InLexer
    /\ input[i + 1] \in Whitespace
    /\ i' = i + 1
    /\ UNCHANGED <<doc, tokens, stack, scene, log, pc, kept>>

tokenize_punctuation ==
    /\ InLexer
    /\ input[i + 1] \in Punctuation
    /\ tokens' = Append(tokens, P(input[i + 1]))
    /\ i' = i + 1
    /\ UNCHANGED <<doc, stack, scene, log, pc, kept>>

tokenize_string ==
    /\ InLexer
    /\ input[i + 1] = "\""
    /\ tokens' = Append(tokens, [type |-> "string", value |-> scanString(input, i + 2, <<>>).str])
    /\ i' = scanString(input, i + 2, <<>>).j
    /\ UNCHANGED <<doc, stack, scene, log, pc, kept>>

tokenize_number ==
    /\ InLexer
    /\ input[i + 1] \notin Whitespace \cup Punctuation \cup {"\""}
    /\ numMatch(input, i + 1) > 0
    /\ tokens' = Append(tokens, [type |-> "number",
                                 raw |-> SubSeq(input, i + 1, i + numMatch(input, i + 1))])
    /\ i' = i + numMatch(input, i + 1)
    /\ UNCHANGED <<doc, stack, scene, log, pc, kept>>

tokenize_ident ==
    /\ InLexer
    /\ numMatch(input, i + 1) = 0
    /\ isIdentStart(input[i + 1])
    /\ tokens' = Append(tokens, [type |-> "ident",
                                 value |-> SubSeq(input, i + 1,
                                                  i + 1 + run(input, i + 2, IdentChars))])
    /\ i' = i + 1 + run(input, i + 2, IdentChars)
    /\ UNCHANGED <<doc, stack, scene, log, pc, kept>>

tokenize_symbol ==
    /\ InLexer
    /\ input[i + 1] \notin Whitespace \cup Punctuation \cup {"\""}
    /\ numMatch(input, i + 1) = 0
    /\ ~isIdentStart(input[i + 1])
    /\ tokens' = Append(tokens, symbolToken(input[i + 1]))
    /\ i' = i + 1
    /\ UNCHANGED <<doc, stack, scene, log, pc, kept>>

\* tokens.push({ type: 'EOF' }); return tokens
tokenize_return ==
    /\ pc = "lex"
    /\ i >= Len(input)
    /\ tokens' = Append(tokens, EOFTok)
    /\ pc' = "lexed"
    /\ UNCHANGED <<doc, i, stack, scene, log, kept>>

\* the characters of the texts
Chars == {" ", "\n", "{", "\"", "\\", "a", "e", "1", "-", ".", "#", "%", "/", "*"}

MaxText == 3

\* texts with a closed block comment, a closed string with an escape, a
\* number with an exponent and a comment inside a string
LongTexts ==
    {<<"/", "*", "#", "\n", "*", "/", "a">>,
     <<"a", "/", "*", "*", "/", "1", "/", "*">>,
     <<"\"", "a", "\\", "\"", "b", "\"", "{">>,
     <<"-", "1", ".", "1", "e", "-", "1", "a">>,
     <<"\"", "%", "\"", "\n", "#">>}

TextDocs == {[family |-> "text", text |-> t] : t \in SeqsUpTo(Chars, MaxText) \cup LongTexts}

LexInit ==
    /\ doc \in TextDocs
    /\ tokens = <<>>
    /\ i = 0
    /\ stack = <<>>
    /\ scene = emtpyScene
    /\ log = <<>>
    /\ pc = "lex"
    /\ kept = Null

LexNext ==
    \/ tokenize_whitespace
    \/ tokenize_punctuation
    \/ tokenize_string
    \/ tokenize_number
    \/ tokenize_ident
    \/ tokenize_symbol
    \/ tokenize_return

LexSpec == LexInit /\ [][LexNext]_vars

---------------------------------------------------------------------------
(* The cursor methods called on their own, with the optional value          *)
(* argument.  A value is given with its JavaScript type; `log` holds the    *)
(* call and what it returned or threw.                                      *)

Undefined == [kind |-> "undefined"]
StringValue(v) == [kind |-> "string", v |-> v]
NumberValue(v) == [kind |-> "number", v |-> v]

\* t.value with its type
valueOf(t) ==
    IF "value" \notin DOMAIN t THEN Undefined
    ELSE IF t.type = "number" THEN NumberValue(t.value)
    ELSE StringValue(t.value)

\* a === b
strictEquals(a, b) == a.kind = b.kind /\ (a.kind # "undefined" => a.v = b.v)

\* the truthiness of a value in `${value ? ' ' + value : ''}`
truthy(value) ==
    /\ value.kind # "undefined"
    /\ value.kind = "string" => value.v # ""
    /\ value.kind = "number" => value.v # R(0) /\ ~IsNaN(value.v)

\* t.type === type && (value === undefined || t.value === value)
matches(t, type, value) ==
    t.type = type /\ (value.kind = "undefined" \/ strictEquals(valueOf(t), value))

\* `Unexpected token: expected ${type}${value ? ' ' + value : ''}, got ${t.type} ${t.value}`
errorMessage(type, value, t) ==
    [expected |-> IF truthy(value) THEN <<StringValue(type), value>> ELSE <<StringValue(type)>>,
     got |-> <<StringValue(t.type), valueOf(t)>>]

InCursor == pc = "cursor" /\ log = <<>>

Called(call, type, value, ret, error) ==
    [call |-> call, type |-> type, value |-> value, before |-> i, ret |-> ret,
     error |-> error]

TokenTypes == {"ident", "number", "string", "{", "EOF"}
Values == <<Undefined, NumberValue(R(0)), NumberValue(R(1)), StringValue("a"), StringValue("")>>

\* what a call returns when it returns null, and the error of a call that
\* throws none
NoToken == [type |-> "null"]
NoError == [expected |-> <<>>, got |-> <<>>]

Parser_peek ==
    /\ InCursor
    /\ \E n \in 0..1 : log' = <<Called("peek", "", NumberValue(R(n)), peek(i + n), NoError)>>
    /\ UNCHANGED <<doc, tokens, i, stack, scene, pc, kept>>

Parser_next ==
    /\ InCursor
    /\ log' = <<Called("next", "", Undefined, peek(i), NoError)>>
    /\ i' = i + 1
    /\ UNCHANGED <<doc, tokens, stack, scene, pc, kept>>

Parser_expect ==
    /\ InCursor
    /\ \E type \in TokenTypes, k \in 1..Len(Values) :
          log' = <<IF matches(peek(i), type, Values[k])
                   THEN Called("expect", type, Values[k], peek(i), NoError)
                   ELSE Called("expect", type, Values[k], NoToken,
                               errorMessage(type, Values[k], peek(i)))>>
    /\ i' = i + 1
    /\ UNCHANGED <<doc, tokens, stack, scene, pc, kept>>

Parser_accept ==
    /\ InCursor
    /\ \E type \in TokenTypes, k \in 1..Len(Values) :
          IF matches(peek(i), type, Values[k])
          THEN /\ log' = <<Called("accept", type, Values[k], peek(i), NoError)>>
               /\ i' = i + 1
          ELSE /\ log' = <<Called("accept", type, Values[k], NoToken, NoError)>>
               /\ i' = i
    /\ UNCHANGED <<doc, tokens, stack, scene, pc, kept>>

MaxTokens == 2

CursorTokens == {"a", "0", "1", "\"\"", "{"}

cursorToken(text) ==
    CASE text = "a" -> Id("a")
      [] text = "0" -> N(0)
      [] text = "1" -> N(1)
      [] text = "\"\"" -> Str("")
      [] text = "{" -> P("{")

CursorDocs == {[family |-> "tokens", tokens |-> q] : q \in SeqsUpTo(CursorTokens, MaxTokens)}

\* new Parser(tokens), the cursor anywhere up to one past the EOF token
CursorInit ==
    /\ doc \in CursorDocs
    /\ tokens = [k \in 1..Len(doc.tokens) |-> cursorToken(doc.tokens[k])] \o <<EOFTok>>
    /\ i \in 0..(Len(tokens) + 1)
    /\ stack = <<>>
    /\ scene = emtpyScene
    /\ log = <<>>
    /\ pc = "cursor"
    /\ kept = Null

CursorNext == Parser_peek \/ Parser_next \/ Parser_expect \/ Parser_accept

CursorSpec == CursorInit /\ [][CursorNext]_vars

---------------------------------------------------------------------------
(* triangulateEarClip, one round of its loop at a time.  `stack` is V, the   *)
(* local indices that remain, `log` the triangles pushed so far and `i` the *)
(* safety counter.                                                          *)

\* V.splice(i, 1) left out
splice_none(V, k) == V

\* V.splice(i, 1)
splice(V, k) == RemoveAt(V, k)

polyPts == doc.pts

projected == [k \in 1..Len(polyPts) |->
                proj(projectionOf(computeNormalNewell(polyPts)), polyPts[k])]

InClipLoop == pc = "clip" /\ Len(stack) > 3 /\ i < MaxSafety

\* the positions of V (1-based) whose corner is an ear
earsOf(v2, V) == {k \in 1..Len(V) : earAt(v2, V, k)}

\* the first ear in the order of V is clipped
clipEar(V, ears) ==
    LET k == CHOOSE e \in ears : \A f \in ears : e <= f
        n == Len(V)
    IN  /\ log' = Append(log, <<V[((k - 2 + n) % n) + 1], V[k], V[(k % n) + 1]>>)
        /\ stack' = splice(V, k)

triangulateEarClip_clip ==
    /\ InClipLoop
    /\ LET ears == earsOf(projected, stack)
       IN  ears # {} /\ clipEar(stack, ears)
    /\ i' = i + 1
    /\ UNCHANGED <<doc, tokens, scene, pc, kept>>

\* no ear in a whole pass over V: give up, with the triangles clipped so far
triangulateEarClip_giveUp ==
    /\ InClipLoop
    /\ earsOf(projected, stack) = {}
    /\ i' = i + 1
    /\ pc' = "done"
    /\ UNCHANGED <<doc, tokens, stack, scene, log, kept>>

triangulateEarClip_return ==
    /\ pc = "clip"
    /\ ~InClipLoop
    /\ log' = IF Len(polyPts) >= 3 /\ Len(stack) = 3
              THEN Append(log, <<stack[1], stack[2], stack[3]>>)
              ELSE log
    /\ pc' = "done"
    /\ UNCHANGED <<doc, tokens, i, stack, scene, kept>>

\* the corners of faces: three points of a line, a point off the line and
\* the point of a vertex index outside the vertexlist
FacePoints == {<<R(0), R(0), R(0)>>, <<R(1), R(0), R(0)>>, <<R(2), R(0), R(0)>>,
               <<R(2), R(2), R(0)>>, <<Null, Null, Null>>}

MaxVerts == 4

Pt(x, y, z) == <<R(x), R(y), R(z)>>

\* a square in both directions, a bow tie, a square off the axes planes, a
\* pentagon with a collinear corner, an L-shaped hexagon in both
\* directions, five points of a line, and a hexagon with a reflex corner
\* and a repeated point
LongFaces ==
    {<<Pt(0, 0, 0), Pt(2, 0, 0), Pt(2, 2, 0), Pt(0, 2, 0)>>,
     <<Pt(0, 2, 0), Pt(2, 2, 0), Pt(2, 0, 0), Pt(0, 0, 0)>>,
     <<Pt(0, 0, 0), Pt(2, 2, 0), Pt(2, 0, 0), Pt(0, 2, 0)>>,
     <<Pt(0, 0, 0), Pt(2, 0, 1), Pt(2, 2, 2), Pt(0, 2, 1)>>,
     <<Pt(0, 0, 0), Pt(1, 0, 0), Pt(2, 0, 0), Pt(2, 2, 0), Pt(0, 2, 0)>>,
     <<Pt(0, 0, 0), Pt(2, 0, 0), Pt(2, 1, 0), Pt(1, 1, 0), Pt(1, 2, 0), Pt(0, 2, 0)>>,
     <<Pt(0, 2, 0), Pt(1, 2, 0), Pt(1, 1, 0), Pt(2, 1, 0), Pt(2, 0, 0), Pt(0, 0, 0)>>,
     <<Pt(0, 0, 0), Pt(1, 0, 0), Pt(2, 0, 0), Pt(3, 0, 0), Pt(4, 0, 0)>>,
     <<Pt(0, 0, 0), Pt(2, 0, 0), Pt(1, 1, 0), Pt(2, 2, 0), Pt(2, 2, 0), Pt(0, 2, 0)>>}

FaceDocs == {[family |-> "face", pts |-> q] :
                q \in (SeqsUpTo(FacePoints, MaxVerts) \ SeqsUpTo(FacePoints, 1))
                       \cup LongFaces}

ClipInit ==
    /\ doc \in FaceDocs
    /\ tokens = <<>>
    /\ i = 0
    /\ stack = IF Len(doc.pts) < 3 THEN <<>> ELSE [k \in 1..Len(doc.pts) |-> k - 1]
    /\ scene = emtpyScene
    /\ log = <<>>
    /\ pc = "clip"
    /\ kept = Null

ClipNext ==
    \/ triangulateEarClip_clip
    \/ triangulateEarClip_giveUp
    \/ triangulateEarClip_return

ClipSpec == ClipInit /\ [][ClipNext]_vars

---------------------------------------------------------------------------
(* Token sequences of any shape: the documents cut off after each of their  *)
(* tokens, and short sequences of arbitrary tokens.                         *)

WholeDocs ==
    ScenarioDocs
    \cup {d \in WorldDocs : Len(d.props) = 1}
    \cup {d \in ObjectDocs : d.before = <<>> /\ d.after = <<>>}
    \cup {d \in IndexedDocs : d.materials = 1 /\ d.index = R(0)}
    \cup {d \in PolyDocs : Len(d.faces) = 1}
    \cup {d \in NPolyDocs : d.count = 3}
    \cup {d \in TopDocs : Len(d.items) = 1}
    \cup {d \in SkipDocs : d.sibling = <<>>}

TruncatedDocs ==
    UNION {{[family |-> "truncated", whole |-> d, length |-> n] :
                n \in 0..Len(tokensOf(d)) - 1} : d \in WholeDocs}

SoupTokens == {"object", "view", "world", "{", "}", "1", "N_LINE", "indexed_poly",
               "polylist"}

soupToken(text) ==
    CASE text = "{" -> P("{")
      [] text = "}" -> P("}")
      [] text = "1" -> N(1)
      [] OTHER -> Id(text)

MaxSoup == 3

SoupDocs == {[family |-> "soup", items |-> q] : q \in SeqsUpTo(SoupTokens, MaxSoup)}

\* the tokens of a cut-off document end with the EOF marker as well
anyTokens(d) ==
    IF d.family = "truncated"
    THEN SubSeq(tokensOf(d.whole), 1, d.length) \o <<EOFTok>>
    ELSE [k \in 1..Len(d.items) |-> soupToken(d.items[k])] \o <<EOFTok>>

AnyInit ==
    /\ doc \in TruncatedDocs \cup SoupDocs
    /\ tokens = anyTokens(doc)
    /\ i = 0
    /\ stack = <<>>
    /\ scene = emtpyScene
    /\ log = <<>>
    /\ pc = "parse"
    /\ kept = Null

AnySpec == AnyInit /\ [][Next]_vars

---------------------------------------------------------------------------
(* What a document declares *)

\* the views a well-formed sibling adds to its object, by type
declaredViews(m) == IF m = "rbox" THEN <<"rbox">> ELSE <<>>

siblingViews(q) == flatten([k \in 1..Len(q) |-> declaredViews(q[k])])

\* how many members of q are m
declaredCount(q, m) == Cardinality({k \in 1..Len(q) : q[k] = m})

viewTypes(obj) == [k \in 1..Len(viewsOf(obj)) |-> viewsOf(obj)[k].type]

\* the names of the objects a sequence of top-level statements declares
RECURSIVE declaredNames(_)
declaredNames(q) ==
    IF q = <<>> THEN <<>>
    ELSE (IF Head(q) = "object" THEN <<Null>>
          ELSE IF Head(q) = "object_a" THEN <<"a">> ELSE <<>>) \o declaredNames(Tail(q))

\* characters that start no token kind of their own when no digit follows
SymbolChars == {"#", ".", "-", "*"}

nonWhitespace(t) == SelectSeq(t, LAMBDA ch : ch \notin Whitespace)

\* the state parseTopLevel hands to the post-parse pass
Parsed == pc = "parse" /\ stack = <<>> /\ peek(i).type = "EOF"

\* opening minus closing braces among the tokens at p .. q (0-based)
balance(p, q) ==
    Cardinality({k \in p..q : peek(k).type = "{"})
    - Cardinality({k \in p..q : peek(k).type = "}"})

\* the positions at which the block opened at p is balanced
closers(p) == {q \in p..(Len(tokens) - 1) : balance(p, q) = 0}

\* the objects of a sequence together with their children, at any depth
RECURSIVE withChildren(_)
withChildren(objs) ==
    IF objs = <<>> THEN <<>>
    ELSE <<Head(objs)>> \o withChildren(Head(objs).children) \o withChildren(Tail(objs))

\* every view of the scene graph
allViews(s) == flatten([k \in 1..Len(withChildren(objectsOf(s))) |->
                          viewsOf(withChildren(objectsOf(s))[k])])

\* the 3D points of the face f of a poly document
facePoints(f) ==
    [k \in 1..Len(faceIndices(f)) |->
        [c \in 1..3 |-> R(PolyVertices[faceIndices(f)[k] + 1][c])]]

\* the axis (1 = x, 2 = y, 3 = z) that a projection leaves out
droppedAxis(projection) ==
    IF projection = "yz" THEN 1 ELSE IF projection = "xz" THEN 2 ELSE 3

\* twice the signed area of the projected polygon (shoelace sum)
RECURSIVE shoelace(_, _)
shoelace(v2, k) ==
    IF k > Len(v2) THEN R(0)
    ELSE RAdd(RSub(RMul(v2[k][1], v2[(k % Len(v2)) + 1][2]),
                   RMul(v2[(k % Len(v2)) + 1][1], v2[k][2])),
              shoelace(v2, k + 1))

---------------------------------------------------------------------------
(* Properties *)

\* C1: parsing a world block sets every known property it contains, also
\* when the properties are separated by ';': scenario A ends with
\* background [0.1, 0.2, 0.3] and start [1, 2, 3], and every world block
\* of background / start properties ends with the ones it wrote.
C1_WorldSetsEveryProperty ==
    Done =>
        /\ doc = [family |-> "scenario", name |-> "A"] =>
              /\ scene.world.background = <<Rat(1, 10), Rat(1, 5), Rat(3, 10)>>
              /\ scene.world.start = <<R(1), R(2), R(3)>>
        /\ doc.family = "world" =>
              \A k \in 1..Len(doc.props) :
                 /\ doc.props[k] = "background" =>
                       scene.world.background = <<Rat(1, 10), Rat(1, 5), Rat(3, 10)>>
                 /\ doc.props[k] \in {"start", "start_plain"} =>
                       scene.world.start = <<R(1), R(2), R(3)>>

\* C2: scenario B yields exactly one top-level object with exactly one
\* material of diffuse [1, 0, 0] and exactly one box view of center
\* [0, 0, 0] and size [2, 2, 2]; the stray '}' adds nothing and warns of
\* nothing.
C2_ScenarioB ==
    Done /\ doc = [family |-> "scenario", name |-> "B"] =>
        /\ Len(scene.objects) = 1
        /\ log = <<>>
        /\ LET obj == scene.objects[1] IN
           /\ Len(obj.materials) = 1
           /\ obj.materials[1].diffuse = <<R(1), R(0), R(0)>>
           /\ Len(obj.children) = 0
           /\ Len(viewsOf(obj)) = 1
           /\ viewsOf(obj)[1].type = "rbox"
           /\ viewsOf(obj)[1].center = <<R(0), R(0), R(0)>>
           /\ viewsOf(obj)[1].size = <<R(2), R(2), R(2)>>

C2_Witness ==
    /\ Done
    /\ doc = [family |-> "scenario", name |-> "B"]
    /\ Len(scene.objects) = 1
    /\ Len(viewsOf(scene.objects[1])) = 1

\* C3: a view whose CYL lacks its height (braced or single-line, with or
\* without flags) produces no view, and the object is added to the scene
\* with every other view declared before or after it.
C3_CylWithoutHeight ==
    Done /\ doc.family = "object" /\ doc.member \in CylNoHeight =>
        /\ Len(scene.objects) = 1
        /\ viewTypes(scene.objects[1]) = siblingViews(doc.before \o doc.after)

\* C4: an arity or type mismatch inside a primitive is caught by the View
\* rule: no view is produced for that declaration, the object is added to
\* the scene and holds every view, material, transform and child declared
\* around the malformed view.
C4_PrimitiveErrorStaysInView ==
    Done /\ doc.family = "object" /\ doc.member \in BadViews \ {"sphere_two"} =>
        /\ Len(scene.objects) = 1
        /\ \A k \in 1..Len(log) : log[k] # "View parse error in object"
        /\ LET obj == scene.objects[1] IN
           /\ viewTypes(obj) = siblingViews(doc.before \o doc.after)
           /\ Len(obj.transforms) = declaredCount(doc.before \o doc.after, "translation")
           /\ Len(obj.children) = declaredCount(doc.before \o doc.after, "child_mat")
           /\ \A k \in 1..Len(doc.after) :
                 doc.after[k] = "mat_rgb" =>
                    \E j \in 1..Len(obj.materials) :
                       obj.materials[j].diffuse = <<R(1), R(0), R(0)>>

\* C5: an arity or type mismatch inside a material or a transform drops only
\* that material or transform: the object is added to the scene with all
\* the well-formed members written around it.
C5_MaterialOrTransformErrorIsLocal ==
    Done /\ doc.family = "object" /\ doc.member \in BadMaterials \cup BadTransforms =>
        /\ Len(scene.objects) = 1
        /\ viewTypes(scene.objects[1]) = siblingViews(doc.before \o doc.after)
        /\ Len(scene.objects[1].transforms)
              = declaredCount(doc.before \o doc.after, "translation")
        /\ Len(scene.objects[1].children)
              = declaredCount(doc.before \o doc.after, "child_mat")
        /\ \A k \in 1..Len(doc.before \o doc.after) :
              (doc.before \o doc.after)[k] = "mat_rgb" =>
                 \E j \in 1..Len(scene.objects[1].materials) :
                    scene.objects[1].materials[j].diffuse = <<R(1), R(0), R(0)>>

\* C6: after parseVrIntoScene returns, every object of the scene graph,
\* top-level or nested at any depth, has a non-empty materials sequence.
C6_EveryObjectHasMaterial ==
    LET RECURSIVE allHaveMaterial(_)
        allHaveMaterial(objects) ==
            \A k \in 1..Len(objects) :
               /\ Len(objects[k].materials) > 0
               /\ allHaveMaterial(objects[k].children)
    IN  Done => allHaveMaterial(scene.objects)

\* C7: the post-parse pass gives a top-level object without materials
\* exactly one, of diffuse [128/255, 128/255, 128/255], leaves the materials
\* of a top-level object that has some as they were, and neither adds nor
\* removes objects; so a well-formed top-level object declared with no
\* material entry ends with exactly that one gray material.
C7_DefaultGrayOnlyWhenNoMaterial ==
    [][Parsed /\ pc' = "done" =>
          /\ Len(scene'.objects) = Len(objectsOf(scene))
          /\ \A k \in 1..Len(objectsOf(scene)) :
                /\ Len(objectsOf(scene)[k].materials) = 0 =>
                      /\ Len(scene'.objects[k].materials) = 1
                      /\ scene'.objects[k].materials[1].diffuse
                            = <<Rat(128, 255), Rat(128, 255), Rat(128, 255)>>
                /\ Len(objectsOf(scene)[k].materials) > 0 =>
                      scene'.objects[k].materials = objectsOf(scene)[k].materials
          /\ doc.family = "object"
             /\ doc.member \notin BadViews \cup BadMaterials \cup BadTransforms
             /\ doc.member \notin GoodMaterials
             /\ declaredCount(doc.before \o doc.after, "mat_rgb") = 0 =>
                /\ Len(scene'.objects) = 1
                /\ Len(scene'.objects[1].materials) = 1
                /\ scene'.objects[1].materials[1].diffuse
                      = <<Rat(128, 255), Rat(128, 255), Rat(128, 255)>>]_vars

C7_Witness ==
    /\ Done
    /\ doc.family = "object"
    /\ doc.member \in GoodViews
    /\ declaredCount(doc.before \o doc.after, "mat_rgb") = 0
    /\ Len(scene.objects) = 1
    /\ scene.objects[1].materials = <<[name |-> "GRAY", diffuse |-> x11Gray]>>

\* C8: every view produced in an object that has materials carries a
\* material, whatever its primitive: materials[material_index] when the
\* index was supplied and is in range, materials[0] otherwise.
C8_EveryViewCarriesMaterial ==
    Done /\ doc.family = "indexed" =>
        /\ Len(scene.objects) = 1
        /\ LET obj == scene.objects[1]
               inRange == /\ doc.index # Null
                          /\ IsInteger(doc.index)
                          /\ doc.index[1] \in 0..(Len(obj.materials) - 1)
           IN  \A k \in 1..Len(viewsOf(obj)) :
                  /\ "material" \in DOMAIN viewsOf(obj)[k]
                  /\ viewsOf(obj)[k].material
                        = obj.materials[IF inRange THEN doc.index[1] + 1 ELSE 1]

\* C9: an indexed_poly whose faces have k_1 .. k_m vertices, each a simple
\* planar polygon in either winding direction, yields a mesh of exactly
\* the sum of (k_i - 2) triangles.
C9_TriangleCount ==
    LET RECURSIVE triangles(_)
        triangles(faces) ==
            IF faces = <<>> THEN 0
            ELSE Len(faceIndices(Head(faces))) - 2 + triangles(Tail(faces))
    IN  Done /\ doc.family = "poly" =>
            /\ Len(scene.objects) = 1
            /\ Len(viewsOf(scene.objects[1])) = 1
            /\ Len(viewsOf(scene.objects[1])[1].indices) = 3 * triangles(doc.faces)

\* C10: an N_POLY of count >= 3 well-formed vertices yields a mesh of
\* exactly count - 2 triangles, (0, i, i+1) for i = 1 .. count-2, in which
\* every vertex index 0 .. count-1 appears.
C10_Fan ==
    Done /\ doc.family = "npoly" =>
        /\ Len(scene.objects) = 1
        /\ Len(viewsOf(scene.objects[1])) = 1
        /\ LET view == viewsOf(scene.objects[1])[1] IN
           /\ view.type = "mesh"
           /\ Len(view.positions) = 3 * doc.count
           /\ Len(view.indices) = 3 * (doc.count - 2)
           /\ \A t \in 1..(doc.count - 2) :
                 /\ view.indices[3 * t - 2] = 0
                 /\ view.indices[3 * t - 1] = t
                 /\ view.indices[3 * t] = t + 1
           /\ \A v \in 0..(doc.count - 1) :
                 \E k \in 1..Len(view.indices) : view.indices[k] = v

C10_Witness ==
    /\ Done
    /\ doc.family = "npoly"
    /\ doc.count > 3
    /\ Len(scene.objects) = 1
    /\ Len(viewsOf(scene.objects[1])) = 1
    /\ Len(viewsOf(scene.objects[1])[1].indices) = 3 * (doc.count - 2)

\* C11: a box written with corners A, B and the box written with corners
\* B, A get the same center and the same size, and no component of the
\* size is negative.
C11_RBoxCornerOrder ==
    Done /\ doc.family = "rbox" =>
        /\ Len(scene.objects) = 2
        /\ \A n \in 1..2 :
              /\ Len(viewsOf(scene.objects[n])) = 1
              /\ viewsOf(scene.objects[n])[1].type = "rbox"
              /\ \A k \in 1..3 : RLeq(R(0), viewsOf(scene.objects[n])[1].size[k])
        /\ viewsOf(scene.objects[1])[1].center = viewsOf(scene.objects[2])[1].center
        /\ viewsOf(scene.objects[1])[1].size = viewsOf(scene.objects[2])[1].size

C11_Witness ==
    /\ Done
    /\ doc.family = "rbox"
    /\ \A k \in 1..3 : doc.a[k] # doc.b[k]
    /\ Len(scene.objects) = 2
    /\ viewsOf(scene.objects[1])[1].size = viewsOf(scene.objects[2])[1].size

\* C12: an unknown top-level keyword followed by a brace-balanced block is
\* skipped with the whole block, nested declarations included: in a
\* document of such blocks, world blocks and objects, nothing is reported,
\* the background is the one of the written world block (the default one
\* when none is written), and the objects are the written ones; so
\* foo { bar 1 2 3 } world { background 0.1 0.2 0.3 } sets the background.
C12_UnknownBlockSkipped ==
    /\ Done
    /\ doc.family = "toplevel"
    /\ \A k \in 1..Len(doc.items) :
          doc.items[k] \in {"unk_block", "unk_nested", "world_bg", "object"}
    => /\ log = <<>>
       /\ scene.world.background =
             IF declaredCount(doc.items, "world_bg") > 0
             THEN <<Rat(1, 10), Rat(1, 5), Rat(3, 10)>>
             ELSE emtpyScene.world.background
       /\ Len(scene.objects) = declaredCount(doc.items, "object")

C12_Witness ==
    /\ Done
    /\ doc = [family |-> "toplevel", items |-> <<"unk_block", "world_bg">>]
    /\ scene.world.background = <<Rat(1, 10), Rat(1, 5), Rat(3, 10)>>
    /\ log = <<>>

\* C13: no step raises out of the parser and parsing cannot go on forever:
\* every step moves the cursor forward or closes a rule at the same
\* cursor, and the cursor gets at most one place past the EOF token; the
\* call returns the scene it was given, with objects a
\* sequence, also when the scene had no objects field and the document
\* declares no object; an object once appended to scene.objects stays at
\* its place up to the return (which may only give it the default
\* material), and the return leaves the world fields as parsing set them.
C13_AlwaysReturnsTheScene ==
    /\ [](i <= Len(tokens))
    /\ [](Done => /\ DOMAIN scene = {"world", "objects"}
                  /\ DOMAIN scene.objects = 1..Len(scene.objects))
    /\ [][/\ pc' = "done" \/ i' > i \/ (i' = i /\ Len(stack') < Len(stack))
          /\ Len(objectsOf(scene')) >= Len(objectsOf(scene))
          /\ \A k \in 1..Len(objectsOf(scene)) :
                [objectsOf(scene)[k] EXCEPT !.materials = objectsOf(scene')[k].materials]
                    = objectsOf(scene')[k]
          /\ pc' = "parse" =>
                \A k \in 1..Len(objectsOf(scene)) : objectsOf(scene')[k] = objectsOf(scene)[k]
          /\ pc' = "done" =>
                /\ scene'.world = scene.world
                /\ Len(scene'.objects) = Len(objectsOf(scene))]_vars

C13_Witness ==
    /\ Done
    /\ doc = [family |-> "toplevel", items |-> <<"object", "unk_value">>]
    /\ Len(scene.objects) = 1

C15_ObjectsPlacedOnce ==
    Done =>
        /\ doc.family = "object" => Len(scene.objects) <= 1
        /\ doc.family = "toplevel"
           /\ (\A k \in 1..Len(doc.items) : doc.items[k] \notin {"unk_value"}) =>
              [k \in 1..Len(scene.objects) |-> scene.objects[k].name]
                  = declaredNames(doc.items)

\* C16: the lexer always returns: every step moves its index forward
\* within the text; the returned sequence ends with the EOF marker and
\* holds it nowhere else; of a text of characters that start no
\* punctuation, string, number, identifier or comment (and of whitespace)
\* every such character is a token of its own, in order; and a text that
\* opens a string and never closes it gives one string token with the
\* characters after the quote.
C16_LexerNeverFails ==
    /\ [](pc \in {"lex", "lexed"} => i <= Len(input))
    /\ [][pc = "lex" => i' > i \/ pc' = "lexed"]_vars
    /\ [](pc = "lexed" =>
            /\ tokens[Len(tokens)] = EOFTok
            /\ \A k \in 1..(Len(tokens) - 1) : tokens[k].type # "EOF"
            /\ (\A k \in 1..Len(doc.text) : doc.text[k] \in SymbolChars \cup Whitespace) =>
                  tokens = [k \in 1..Len(nonWhitespace(doc.text)) |->
                               [type |-> nonWhitespace(doc.text)[k],
                                value |-> nonWhitespace(doc.text)[k]]] \o <<EOFTok>>
            /\ Len(doc.text) > 0 /\ doc.text[1] = "\""
               /\ (\A k \in 2..Len(doc.text) : doc.text[k] \notin {"\"", "\\"}) =>
                  tokens = <<[type |-> "string", value |-> Tail(input)], EOFTok>>)

C16_Witness ==
    /\ pc = "lexed"
    /\ doc.text = <<"\"", "a", "#">>
    /\ tokens = <<[type |-> "string", value |-> <<"a", "#">>], EOFTok>>

\* C17: peek leaves the cursor and gives the EOF marker at and past the
\* end; accept on a matching token returns it and moves the cursor by one,
\* on another token returns nothing and leaves the cursor; expect on a
\* matching token returns it and moves the cursor by one, and on another
\* token throws an error that names the expected type, the expected value
\* when one was given, and the type and value of the token found.
C17_CursorContract ==
    pc = "cursor" /\ log # <<>> =>
        LET c == log[1]
            t == peek(c.before)
        IN  /\ c.call = "peek" =>
                 /\ i = c.before
                 /\ c.before + c.value.v[1] >= Len(tokens) - 1 => c.ret = EOFTok
            /\ c.call = "accept" /\ matches(t, c.type, c.value) =>
                 c.ret = t /\ i = c.before + 1
            /\ c.call = "accept" /\ ~matches(t, c.type, c.value) =>
                 c.ret = NoToken /\ i = c.before
            /\ c.call = "expect" /\ matches(t, c.type, c.value) =>
                 c.ret = t /\ c.error = NoError /\ i = c.before + 1
            /\ c.call = "expect" /\ ~matches(t, c.type, c.value) =>
                 /\ c.error # NoError
                 /\ c.error.expected[1] = StringValue(c.type)
                 /\ c.value.kind # "undefined" =>
                       Len(c.error.expected) = 2 /\ c.error.expected[2] = c.value
                 /\ c.error.got = <<StringValue(t.type), valueOf(t)>>

\* C18: the world rule reads up to its own closing brace and no further:
\* in a world block of known properties and unknown properties with one
\* value, with ';' between or after the properties, the cursor of the
\* rule stays inside the block, and the object declared after the block
\* is parsed as a top-level object.
C18_WorldEndsAtItsBrace ==
    doc.family = "world_then" =>
        /\ InRule("world") => i < Len(worldBlock(doc))
        /\ Done =>
              /\ Len(scene.objects) = 1
              /\ scene.objects[1].name = "a"

\* C19: an unrecognized keyword of an object body is skipped with at most
\* one value or one block: the rule of the object does not read past the
\* closing brace of the object, and the view or nested object declared
\* after the keyword is parsed, so that
\* object { FLAG wireframe on view { RBOX ... } } ends with the box view.
C19_UnknownKeywordSkipsOneValue ==
    doc.family = "skip" =>
        /\ InRule("object") /\ Len(stack) = 1 => i <= Len(tokens) - 2
        /\ Done =>
              /\ Len(scene.objects) = 1
              /\ viewTypes(scene.objects[1]) = siblingViews(doc.sibling)
              /\ Len(scene.objects[1].children) = declaredCount(doc.sibling, "child_mat")

\* C20: an unknown top-level keyword followed by one value is skipped with
\* that value only: in a document of such statements, world blocks and
\* objects, written without ';', every world block and every object after
\* an unknown statement is still parsed.
C20_UnknownValueSkipped ==
    /\ Done
    /\ doc.family = "toplevel"
    /\ \A k \in 1..Len(doc.items) :
          doc.items[k] \in {"unk_value", "world_bg", "object", "object_a"}
    => /\ scene.world.background =
             IF declaredCount(doc.items, "world_bg") > 0
             THEN <<Rat(1, 10), Rat(1, 5), Rat(3, 10)>>
             ELSE emtpyScene.world.background
       /\ [k \in 1..Len(scene.objects) |-> scene.objects[k].name]
             = declaredNames(doc.items)

\* C21: for every face of an indexed_poly the triangulator drops an axis on
\* which the Newell normal has the largest magnitude, never one whose
\* component is strictly smaller than another, so a planar face that is not
\* degenerate does not project to a polygon of area zero.
C21_DropsLargestAxis ==
    Done /\ doc.family = "poly" =>
        \A f \in 1..Len(doc.faces) :
            LET pts == facePoints(doc.faces[f])
                normal == computeNormalNewell(pts)
                projection == projectionOf(normal)
                v2 == [k \in 1..Len(pts) |-> proj(projection, pts[k])]
            IN  /\ \A c \in 1..3 :
                      ~RLess(RAbs(normal[droppedAxis(projection)]), RAbs(normal[c]))
                /\ shoelace(v2, 1) # R(0)

\* C22: ear clipping ends on every face of n >= 3 vertices, degenerate ones
\* included: every round removes exactly one vertex from the remaining list
\* or ends the loop, there are at most n - 3 rounds that clip, the result
\* has at most n - 2 triangles, each of three distinct local indices in
\* 0..n-1, and when no ear is found the triangles clipped so far are the
\* result.
C22_EarClippingEnds ==
    /\ [](Len(doc.pts) >= 3 =>
            /\ Len(stack) >= 3
            /\ Len(log) <= Len(doc.pts) - 2
            /\ \A k \in 1..Len(log) :
                  /\ Cardinality({log[k][1], log[k][2], log[k][3]}) = 3
                  /\ \A c \in 1..3 : log[k][c] \in 0..(Len(doc.pts) - 1))
    /\ [](Done => log = triangulateEarClip(doc.pts))
    /\ [][
          /\ pc = "clip"
          /\ \/ /\ Len(stack') = Len(stack) - 1
                /\ Len(log') = Len(log) + 1
                /\ SubSeq(log', 1, Len(log)) = log
                /\ pc' = "clip"
                /\ i' <= Len(doc.pts) - 3
             \/ /\ pc' = "done"
                /\ stack' = stack
                /\ Len(stack) > 3 => log' = log
       ]_vars

\* a face of more than four corners for which the search gave up after some
\* rounds, with the triangles clipped until then as the result
C22_Witness ==
    /\ Done
    /\ doc.family = "face"
    /\ Len(doc.pts) > 4
    /\ Len(stack) > 3
    /\ Len(log) >= 1
    /\ i = Len(log) + 1

\* C23: parsing ends on every finite token sequence: every step of a rule
\* consumes at least one token or leaves its loop, the cursor never moves
\* backwards (in the rules and in the skipping routines they call), and the
\* top-level rule returns only when the cursor reads the EOF marker, every
\* token before it consumed.
C23_ParsingEnds ==
    /\ [](\A p \in 0..Len(tokens) :
            /\ skipValue(p) > p
            /\ skipBlock(p) >= p
            /\ peek(p).type = "{" => skipBlock(p) > p
            /\ skipStatement(p) >= p
            /\ parseVector(p).i > p)
    /\ [][/\ i' >= i
          /\ \/ i' > i
             \/ Len(stack') < Len(stack)
             \/ pc' = "done"
             \/ Len(stack) > 0 /\ Len(stack') = Len(stack) /\ Top.phase # Top'.phase
          /\ pc' = "done" =>
                /\ stack = <<>>
                /\ peek(i).type = "EOF"
                /\ i >= Len(tokens) - 1
       ]_vars

\* an indexed_poly document cut off inside its polylist: the parse has
\* returned with the cursor behind the EOF marker and the object kept
C23_Witness ==
    /\ Done
    /\ doc.family = "truncated"
    /\ doc.whole.family = "poly"
    /\ doc.length = Len(tokensOf(doc.whole)) - 5
    /\ i = Len(tokens)
    /\ Len(scene.objects) = 1

\* C24: in the final scene every mesh view has positions and indices whose
\* lengths are multiples of 3 and every index is below positions.length / 3;
\* every lines view has positions of a length that is a multiple of 3 and
\* indices that pair the consecutive vertices (i, i + 1), all in range; the
\* normals of a mesh, when it has any, are as many as its positions.
C24_ArraysAreWellFormed ==
    Done =>
        \A k \in 1..Len(allViews(scene)) :
            LET view == allViews(scene)[k]
                vcount == Len(view.positions) \div 3
            IN  /\ view.type = "mesh" =>
                      /\ Len(view.positions) % 3 = 0
                      /\ Len(view.indices) % 3 = 0
                      /\ \A j \in 1..Len(view.indices) :
                            view.indices[j] >= 0 /\ view.indices[j] < vcount
                      /\ "normals" \in DOMAIN view =>
                            Len(view.normals) = Len(view.positions)
                /\ view.type = "lines" =>
                      /\ Len(view.positions) % 3 = 0
                      /\ Len(view.indices) = 2 * (IF vcount > 0 THEN vcount - 1 ELSE 0)
                      /\ \A j \in 1..(Len(view.indices) \div 2) :
                            /\ view.indices[2 * j - 1] = j - 1
                            /\ view.indices[2 * j] = j

\* an indexed_poly with a normallist shorter than its vertexlist: the mesh
\* carries one normal per position
C24_Witness ==
    /\ Done
    /\ doc.family = "object"
    /\ doc.member = "poly_normals"
    /\ \E k \in 1..Len(allViews(scene)) :
          /\ allViews(scene)[k].type = "mesh"
          /\ "normals" \in DOMAIN allViews(scene)[k]
          /\ Len(allViews(scene)[k].normals) = 9
          /\ Len(allViews(scene)[k].indices) = 3

\* the vertex v (0-based) of a mesh, as a point
vertexOf(view, v) == <<view.positions[3 * v + 1], view.positions[3 * v + 2],
                       view.positions[3 * v + 3]>>

\* the corner k of the grid documents, as a point
gridCorner(k) == <<R(GridCorners[k][1]), R(GridCorners[k][2]), R(GridCorners[k][3])>>

C26_OneViewPerDeclaration ==
    Done /\ doc.family = "body" =>
        /\ Len(scene.objects) = 1
        /\ Len(viewsOf(scene.objects[1])) <= 1

\* C27: a wrapper property of a view (material_index, texture_index, name,
\* texture_mode) has the same effect before the opening brace and inside the
\* body ahead of the primitive: for every primitive and index the two
\* declarations give identical views.
C27_WrapperBeforeOrInside ==
    Done /\ doc.family = "wrapped" =>
        /\ Len(scene.objects) = 2
        /\ viewsOf(scene.objects[1]) = viewsOf(scene.objects[2])
        /\ scene.objects[1] = scene.objects[2]

\* an indexed_poly with texture_index 0, written both ways: each object has
\* the one view, with the index and the texture of the object
C27_Witness ==
    /\ Done
    /\ doc = [family |-> "wrapped", prop |-> "texture_index", value |-> R(0),
              kind |-> "indexed_poly"]
    /\ Len(viewsOf(scene.objects[2])) = 1
    /\ viewsOf(scene.objects[1])[1].texture_index = R(0)
    /\ viewsOf(scene.objects[2])[1].texture = "t"

\* C28: skipBlock skips exactly one balanced block: with the cursor on `{`
\* it ends immediately after the matching `}`, nested blocks counted, or at
\* the end of the stream when the block is never closed; with the cursor on
\* any other token it consumes nothing.
C28_SkipBlockBalanced ==
    /\ [](\A p \in 0..Len(tokens) :
            IF peek(p).type # "{" THEN skipBlock(p) = p
            ELSE IF closers(p) # {}
                 THEN /\ skipBlock(p) - 1 \in closers(p)
                      /\ \A q \in closers(p) : skipBlock(p) - 1 <= q
                 ELSE /\ skipBlock(p) >= Len(tokens) - 1
                      /\ peek(skipBlock(p)).type = "EOF")
    /\ [][AtTopLevel /\ peek(i).type = "{" /\ closers(i) # {} =>
             /\ i' - 1 \in closers(i)
             /\ \A q \in closers(i) : i' - 1 <= q
             /\ scene' = scene
       ]_vars

\* an unknown block with a world block and an object nested in it has been
\* skipped as a whole: the cursor is at the EOF marker, the scene untouched
C28_Witness ==
    /\ Done
    /\ doc.family = "truncated"
    /\ doc.whole = [family |-> "toplevel", items |-> <<"unk_nested">>]
    /\ doc.length = Len(tokensOf(doc.whole)) - 1
    /\ i = Len(tokens) - 1
    /\ scene.objects = <<>>
    /\ scene.world = emtpyScene.world

\* C29: the content of a double-quoted string literal reaches the parser
\* intact as one string token, also when it holds a comment marker (`//`,
\* `%` or `/*`): for a text that is one closed string literal the tokens
\* are the string token with the characters between the quotes, and the EOF
\* marker.
C29_StringsKeepCommentMarkers ==
    /\ pc = "lexed"
    /\ Len(doc.text) >= 2
    /\ doc.text[1] = "\""
    /\ doc.text[Len(doc.text)] = "\""
    /\ \A k \in 2..(Len(doc.text) - 1) : doc.text[k] \notin {"\"", "\\"}
    => tokens = <<[type |-> "string", value |-> SubSeq(doc.text, 2, Len(doc.text) - 1)],
                 EOFTok>>

\* C30: every position of an indexed_poly mesh is a complete (x, y, z)
\* triple of the vertexlist: a face that names a vertex outside the
\* vertexlist puts no undefined coordinate into the positions.
C30_PositionsComeFromTheVertexlist ==
    Done /\ doc.family = "outpoly" =>
        /\ Len(scene.objects) = 1
        /\ \A k \in 1..Len(viewsOf(scene.objects[1])) :
              LET view == viewsOf(scene.objects[1])[k] IN
              /\ \A j \in 1..Len(view.positions) : view.positions[j] # Null
              /\ \A v \in 0..((Len(view.positions) \div 3) - 1) :
                    vertexOf(view, v) \in {<<R(0), R(0), R(0)>>, <<R(1), R(0), R(0)>>,
                                          <<R(1), R(1), R(0)>>}

====
